---- MODULE Spec2Model ----
(***************************************************************************)
(* A model of the best-first / A* search engine of src/src/a_star:         *)
(* the node registry (NodeList: candidate_nodes, node_history,             *)
(* cost_indexing, position_hash_to_min_accrued_cost) and the two search    *)
(* loops a_star_search and a_star_search_all_with_max_score.               *)
(* One action is one iteration of a search loop, from the loop-bound test  *)
(* to the last try_insert_successor (or to the return).                    *)
(***************************************************************************)
EXTENDS Integers, Sequences, FiniteSets, TLC

VARIABLES
    \* the call's inputs (fixed during one search call)
    kind,               \* which caller-supplied closures are used: "line" | "square" | "table" | "loops"
    edges,              \* "table": node -> sequence of Successor records
    hmap,               \* "table": node -> heuristic value
    goals,              \* "line"/"table": the nodes is_at_end_function accepts
    target,             \* "line": the node the heuristic aims at; "square": the square to hit
    start,              \* the start node
    same,               \* TNode::NODE_ID_AND_POSITION_HASH_SAME
    mode,               \* "single" (a_star_search) | "all" (a_star_search_all_with_max_score)
    max_score,          \* the budget of a_star_search_all_with_max_score
    iteration_limit,    \* Options::iteration_limit, None or Some(L)
    suppress_logs,      \* Options::suppress_logs
    log_interval,       \* Options::log_interval, in seconds
    \* the NodeList
    candidate_nodes,    \* id -> NodeDetails (the Frontier)
    node_history,       \* id -> NodeDetails (the History)
    cost_indexing,      \* g + h -> set of ids
    position_hash_to_min_accrued_cost,  \* position hash -> least accrued cost inserted
    \* the loop
    scoring_results,    \* the goal records collected by the budgeted search
    timeout,            \* the Timeout of the progress lines: seconds elapsed since its start, and its duration
    progress,           \* whether the latest iteration wrote the debug! progress line
    i,                  \* the loop variable of `for i in 1..limit` (tracked when a limit is set)
    steps,              \* extract-and-expand steps performed so far (counted up to StepCap)
    pc,                 \* "loop" | "done" | "panic" | "hang"
    outcome,            \* "" while running, else Ok / NoSolutionFound / IterLimitExceeded / UnexpectedError
    results,            \* the ComputationResults returned with Ok
    \* src/src/a_star.rs, one run per value of options.run_in_parallel
    threads,            \* num_cpus::get()
    open_list,          \* run_in_parallel -> (node -> NodeDetails)
    closed_list,        \* run_in_parallel -> (node -> NodeDetails)
    solution,           \* run_in_parallel -> None while the loop runs, else Some(what is returned)
    batch,              \* the parallel run followed worker by worker: the coordinator's
                        \* position, q_nodes, the workers and the two shared vectors
    \* src/src/a_star/options.rs
    options,            \* the Options value a chain of builder calls has reached
    built,              \* builder -> None, or Some(the argument of its latest call)
    \* src/src/store.rs, for one store_path
    store_file,         \* None, or Some(the bytes of the file at store_path)
    store_dir,          \* whether the parent directory of store_path exists
    store_data,         \* None, or Some(the value behind Store::data)
    store_op,           \* the latest operation on the store
    \* src/src/temp.rs
    temp                \* "file" | "dir" -> the TempFile, the TempDir and its path

inputs == <<kind, edges, hmap, goals, target, start, same, mode, max_score, iteration_limit,
            suppress_logs, log_interval>>
logging == <<timeout, progress>>
registry == <<candidate_nodes, node_history, cost_indexing, position_hash_to_min_accrued_cost>>
search == <<registry, scoring_results, i, steps, outcome, results>>
old_search == <<threads, open_list, closed_list, solution, batch>>
builders == <<options, built>>
stores == <<store_file, store_dir, store_data, store_op>>
elsewhere == <<old_search, builders, stores, temp>>
vars == <<inputs, search, logging, pc, elsewhere>>

----------------------------------------------------------------------------
(* Bounds of the model *)

LineRange == 6      \* line inputs: |target - start| <= LineRange
MaxBudget == 5      \* square inputs: budgets 0..MaxBudget
MaxTableBudget == 2 \* table inputs: budgets 0..MaxTableBudget
MaxLimit == 3       \* iteration limits 0..MaxLimit
MaxCost == 1        \* table graphs: edge costs 0..MaxCost
MaxH == 2           \* table graphs: heuristic values in {0, MaxH}
StepCap == 8        \* the count of steps performed stops at StepCap
MaxResults == 4     \* the budgeted search is followed while it holds at most MaxResults goal records

(* Program constants *)

IdOffset == 1073741823      \* i32::MAX / 2 in TestNode2::get_node_id
DefaultLogInterval == 5     \* Duration::from_secs(5) of Options::default

----------------------------------------------------------------------------
(* Option, and maps with a changing key set *)

None == <<>>
Some(x) == <<x>>

Abs(x) == IF x < 0 THEN -x ELSE x
Min2(a, b) == IF a <= b THEN a ELSE b
SetMin(S) == CHOOSE x \in S : \A y \in S : x <= y

Put(f, k, v) == [x \in (DOMAIN f) \cup {k} |-> IF x = k THEN v ELSE f[x]]
Del(f, k) == [x \in (DOMAIN f) \ {k} |-> f[x]]
EmptyMap == [x \in {} |-> 0]

----------------------------------------------------------------------------
(* The caller-supplied closures and the CustomNode implementations *)

LineSuccessors(n) ==
    << [node |-> n - 1, cost_to_move_here |-> 1],
       [node |-> n + 1, cost_to_move_here |-> 1] >>

get_successors(n) ==
    IF kind \in {"table", "loops"} THEN edges[n] ELSE LineSuccessors(n)

distance_function(n) ==
    CASE kind = "line" -> Abs(n - target)
      [] kind = "square" -> Abs(n * n - target)
      [] kind \in {"table", "loops"} -> hmap[n]

is_at_end_function(n) ==
    IF kind = "square" THEN n * n = target ELSE n \in goals

get_node_id(n) == IF same THEN n ELSE IdOffset + n

get_position_hash(n) == IF same THEN n ELSE Abs(n)

----------------------------------------------------------------------------
(* NodeDetails *)

NodeDetails_new(node, current_accrued_cost, estimated_cost_to_goal) ==
    [node |-> node,
     current_accrued_cost |-> current_accrued_cost,
     estimated_cost_to_goal |-> estimated_cost_to_goal,
     parent |-> None]

new_with_parent(node, current_accrued_cost, estimated_cost_to_goal, parent) ==
    [node |-> node,
     current_accrued_cost |-> current_accrued_cost,
     estimated_cost_to_goal |-> estimated_cost_to_goal,
     parent |-> Some(get_node_id(parent.node))]

sum_accrued_plus_estimated_cost(d) ==
    d.current_accrued_cost + d.estimated_cost_to_goal

----------------------------------------------------------------------------
(* NodeList: a record of the four maps, plus `panicked` for a failed        *)
(* expect/unwrap inside remove_candidate                                    *)

EmptyNodeList ==
    [candidate_nodes |-> EmptyMap,
     node_history |-> EmptyMap,
     cost_indexing |-> EmptyMap,
     position_hash_to_min_accrued_cost |-> EmptyMap,
     panicked |-> FALSE]

\* mutant: the position table keeps the first cost inserted for a position
insert_candidate_first(nl, node, id_opt, position_opt) ==
    LET id == IF id_opt = None THEN get_node_id(node.node) ELSE id_opt[1]
        estimated_cost == sum_accrued_plus_estimated_cost(node)
        accrued_cost == node.current_accrued_cost
        position == IF position_opt = None
                    THEN (IF same THEN id ELSE get_position_hash(node.node))
                    ELSE position_opt[1]
        ci == nl.cost_indexing
        pm == nl.position_hash_to_min_accrued_cost
    IN  [nl EXCEPT
            !.cost_indexing =
                Put(ci, estimated_cost,
                    (IF estimated_cost \in DOMAIN ci THEN ci[estimated_cost] ELSE {})
                        \cup {id}),
            !.candidate_nodes = Put(@, id, node),
            !.position_hash_to_min_accrued_cost =
                Put(pm, position,
                    IF position \in DOMAIN pm THEN pm[position] ELSE accrued_cost)]

insert_candidate(nl, node, id_opt, position_opt) ==
    LET id == IF id_opt = None THEN get_node_id(node.node) ELSE id_opt[1]
        estimated_cost == sum_accrued_plus_estimated_cost(node)
        accrued_cost == node.current_accrued_cost
        position == IF position_opt = None
                    THEN (IF same THEN id ELSE get_position_hash(node.node))
                    ELSE position_opt[1]
        ci == nl.cost_indexing
        pm == nl.position_hash_to_min_accrued_cost
    IN  [nl EXCEPT
            !.cost_indexing =
                Put(ci, estimated_cost,
                    (IF estimated_cost \in DOMAIN ci THEN ci[estimated_cost] ELSE {})
                        \cup {id}),
            !.candidate_nodes = Put(@, id, node),
            !.position_hash_to_min_accrued_cost =
                Put(pm, position,
                    IF position \in DOMAIN pm
                    THEN Min2(accrued_cost, pm[position])
                    ELSE accrued_cost)]

\* mutant: a cost entry is kept when its last key is removed
remove_candidate_keeps_entry(nl, index) ==
    IF index \notin DOMAIN nl.candidate_nodes
    THEN [nl EXCEPT !.panicked = TRUE]
    ELSE LET node == nl.candidate_nodes[index]
             cost == sum_accrued_plus_estimated_cost(node)
             ci == nl.cost_indexing
         IN  IF cost \notin DOMAIN ci
             THEN [nl EXCEPT !.candidate_nodes = Del(@, index), !.panicked = TRUE]
             ELSE [nl EXCEPT
                      !.candidate_nodes = Del(@, index),
                      !.cost_indexing = Put(ci, cost, ci[cost] \ {index})]

remove_candidate(nl, index) ==
    IF index \notin DOMAIN nl.candidate_nodes
    THEN [nl EXCEPT !.panicked = TRUE]
    ELSE LET node == nl.candidate_nodes[index]
             cost == sum_accrued_plus_estimated_cost(node)
             ci == nl.cost_indexing
         IN  IF cost \notin DOMAIN ci
             THEN [nl EXCEPT !.candidate_nodes = Del(@, index), !.panicked = TRUE]
             ELSE LET indices == ci[cost] \ {index}
                  IN  [nl EXCEPT
                          !.candidate_nodes = Del(@, index),
                          !.cost_indexing =
                              IF indices = {} THEN Del(ci, cost)
                              ELSE Put(ci, cost, indices)]

\* mutant: the start record carries the heuristic of the start node
NodeList_new_estimated(s) ==
    insert_candidate(EmptyNodeList, NodeDetails_new(s, 0, distance_function(s)), None, None)

NodeList_new(s) ==
    insert_candidate(EmptyNodeList, NodeDetails_new(s, 0, 0), None, None)

\* mutant: the position test is `<=` whatever the keys
compare_le(a, b) == a <= b

\* the `compare` of try_insert_successor: TNumber::le or TNumber::lt
compare(a, b) == IF same THEN a <= b ELSE a < b

\* mutant: a Frontier record of the same identity is not removed first
try_insert_successor_over(nl, details) ==
    LET position == get_position_hash(details.node)
        accrued_cost == details.current_accrued_cost
        pm == nl.position_hash_to_min_accrued_cost
        id == IF same THEN position ELSE get_node_id(details.node)
    IN  IF nl.panicked THEN nl
        ELSE IF position \in DOMAIN pm /\ compare(pm[position], accrued_cost) THEN nl
        ELSE IF id \in DOMAIN nl.candidate_nodes
                  /\ same /\ nl.candidate_nodes[id].current_accrued_cost <= accrued_cost
        THEN nl
        ELSE IF id \notin DOMAIN nl.candidate_nodes
                  /\ same /\ id \in DOMAIN nl.node_history
                  /\ nl.node_history[id].current_accrued_cost <= accrued_cost
        THEN nl
        ELSE insert_candidate(nl, details, Some(id), Some(position))

try_insert_successor(nl, details) ==
    LET position == get_position_hash(details.node)
        accrued_cost == details.current_accrued_cost
        pm == nl.position_hash_to_min_accrued_cost
        id == IF same THEN position ELSE get_node_id(details.node)
    IN  IF nl.panicked THEN nl
        ELSE IF position \in DOMAIN pm /\ compare(pm[position], accrued_cost) THEN nl
        ELSE IF id \in DOMAIN nl.candidate_nodes
        THEN IF same /\ nl.candidate_nodes[id].current_accrued_cost <= accrued_cost
             THEN nl
             ELSE insert_candidate(remove_candidate(nl, id), details, Some(id), Some(position))
        ELSE IF same /\ id \in DOMAIN nl.node_history
                  /\ nl.node_history[id].current_accrued_cost <= accrued_cost
        THEN nl
        ELSE insert_candidate(nl, details, Some(id), Some(position))

\* get_next: the ids it may take (the first key of cost_indexing, any id of its set)
NextIds(nl) ==
    IF DOMAIN nl.cost_indexing = {} THEN {}
    ELSE nl.cost_indexing[SetMin(DOMAIN nl.cost_indexing)]

\* get_next once the id is taken: the candidate moves to the history
get_next(nl, index) ==
    LET removed == remove_candidate(nl, index)
    IN  IF removed.panicked THEN removed
        ELSE [removed EXCEPT
                 !.node_history = Put(@, index, nl.candidate_nodes[index])]

----------------------------------------------------------------------------
(* Backtrace *)

\* mutant: the path is left in goal-to-start order
ReverseForgotten(s) == s

Reverse(s) == [k \in 1..Len(s) |-> s[Len(s) + 1 - k]]

\* the while-let loop of make_results: each parent is removed from the
\* history as it is visited, and a missing parent fails the unwrap
RECURSIVE backtrace_remove(_, _, _)
backtrace_remove(parent, history, acc) ==
    IF parent = None THEN [status |-> "ok", path |-> acc]
    ELSE IF parent[1] \notin DOMAIN history THEN [status |-> "panic", path |-> acc]
    ELSE backtrace_remove(history[parent[1]].parent,
                          Del(history, parent[1]),
                          Append(acc, history[parent[1]].node))

make_results(end, nl) ==
    LET walk == backtrace_remove(end.parent, nl.node_history, <<end.node>>)
    IN  [status |-> walk.status,
         shortest_path |-> Reverse(walk.path),
         shortest_path_cost |-> end.current_accrued_cost]

\* the while-let loop of make_results_multiple: the history is only read, so
\* a parent chain that comes back to a key it has visited never ends
RECURSIVE backtrace_get(_, _, _, _)
backtrace_get(parent, history, acc, visited) ==
    IF parent = None THEN [status |-> "ok", path |-> acc]
    ELSE IF parent[1] \notin DOMAIN history THEN [status |-> "panic", path |-> acc]
    ELSE IF parent[1] \in visited THEN [status |-> "hang", path |-> acc]
    ELSE backtrace_get(history[parent[1]].parent,
                       history,
                       Append(acc, history[parent[1]].node),
                       visited \cup {parent[1]})

make_results_multiple(end, nl) ==
    [j \in 1..Len(end) |->
        LET walk == backtrace_get(end[j].parent, nl.node_history, <<end[j].node>>, {})
        IN  [status |-> walk.status,
             shortest_path |-> Reverse(walk.path),
             shortest_path_cost |-> end[j].current_accrued_cost]]

\* what the caller gets of a ComputationResult
ComputationResult(r) ==
    [shortest_path |-> r.shortest_path, shortest_path_cost |-> r.shortest_path_cost]

----------------------------------------------------------------------------
(* The search loops *)

\* Timeout, with time counted in seconds up to the duration
Timeout_start(duration) == [elapsed |-> 0, duration |-> duration]

is_done(t) == t.elapsed >= t.duration

restart(t) == [t EXCEPT !.elapsed = 0]

\* the Timeout after some time has passed: less than what is left of its
\* duration, or at least that
Elapse(t) == {t, [t EXCEPT !.elapsed = t.duration]}

\* the block under `if !options.suppress_logs` of a loop iteration
Logging ==
    \E t \in Elapse(timeout) :
        IF ~suppress_logs /\ is_done(t)
        THEN progress' = TRUE /\ timeout' = restart(t)
        ELSE progress' = FALSE /\ timeout' = t

NL ==
    [candidate_nodes |-> candidate_nodes,
     node_history |-> node_history,
     cost_indexing |-> cost_indexing,
     position_hash_to_min_accrued_cost |-> position_hash_to_min_accrued_cost,
     panicked |-> FALSE]

SetRegistry(nl) ==
    /\ candidate_nodes' = nl.candidate_nodes
    /\ node_history' = nl.node_history
    /\ cost_indexing' = nl.cost_indexing
    /\ position_hash_to_min_accrued_cost' = nl.position_hash_to_min_accrued_cost

\* mutant: the limit is not looked at
InRangeUnlimited == TRUE

\* mutant: the loop is also left once a progress line has been written
InRangeWhileQuiet == (iteration_limit = None \/ i < iteration_limit[1]) /\ ~progress

\* `for i in 1usize..options.iteration_limit.unwrap_or(usize::MAX)`: whether
\* the range still yields i
InRange == iteration_limit = None \/ i < iteration_limit[1]

\* with no limit the bound is usize::MAX, which no run reaches: i is then
\* only logged, and is not tracked
NextI == IF iteration_limit = None THEN i ELSE i + 1

\* a successful get_next is one more step performed
Stepped == steps' = Min2(steps + 1, StepCap)

Return(kind_, res) ==
    /\ pc' = "done"
    /\ outcome' = kind_
    /\ results' = res

Abort(how) ==
    /\ pc' = how
    /\ UNCHANGED <<outcome, results>>

\* mutant: the search stops at the first successor the heuristic puts at the goal
FirstAcceptedAtAim(successors) ==
    LET hits == {j \in 1..Len(successors) : distance_function(successors[j].node) = 0}
    IN  IF hits = {} THEN 0 ELSE SetMin(hits)

\* the successors of a_star_search's loop body up to the first one the
\* termination predicate accepts (0: none is accepted)
FirstAccepted(successors) ==
    LET hits == {j \in 1..Len(successors) : is_at_end_function(successors[j].node)}
    IN  IF hits = {} THEN 0 ELSE SetMin(hits)

SuccessorDetails(parent, s) ==
    new_with_parent(s.node,
                    parent.current_accrued_cost + s.cost_to_move_here,
                    distance_function(s.node),
                    parent)

\* mutant: the record of an accepted successor carries no parent key
EndDetailsOrphan(parent, s) ==
    NodeDetails_new(s.node, parent.current_accrued_cost + s.cost_to_move_here, 0)

\* mutant: the record that ends the search is the extracted one
EndDetailsAtParent(parent, s) == parent

EndDetails(parent, s) ==
    new_with_parent(s.node, parent.current_accrued_cost + s.cost_to_move_here, 0, parent)

\* `for details in successors { node_list.try_insert_successor(details) }`
RECURSIVE InsertAll(_, _, _)
InsertAll(nl, details, j) ==
    IF j > Len(details) THEN nl
    ELSE CHOOSE after \in {InsertAll(inserted, details, j + 1) :
                              inserted \in {try_insert_successor(nl, details[j])}} : TRUE

\* the records a_star_search builds when no successor is accepted
AllDetails(parent, successors) ==
    [j \in 1 .. Len(successors) |-> SuccessorDetails(parent, successors[j])]

\* one iteration of a_star_search's loop, with the returns it can take
a_star_search ==
    /\ pc = "loop"
    /\ mode = "single"
    /\ UNCHANGED <<inputs, scoring_results, elsewhere>>
    /\ IF ~InRange
       THEN Return("IterLimitExceeded", <<>>) /\ UNCHANGED <<registry, i, steps, logging>>
       ELSE IF NextIds(NL) = {}
       THEN Return("NoSolutionFound", <<>>) /\ UNCHANGED <<registry, i, steps, logging>>
       ELSE \E index \in NextIds(NL) :
            \E nl1 \in {get_next(NL, index)} :
            IF nl1.panicked
            THEN Abort("panic") /\ SetRegistry(nl1) /\ UNCHANGED <<i, steps, logging>>
            ELSE \E parent \in {nl1.node_history[index]} :
                 \E successors \in {get_successors(parent.node)} :
                 \E hit \in {FirstAccepted(successors)} :
                 IF hit # 0
                 THEN \E made \in {make_results(EndDetails(parent, successors[hit]), nl1)} :
                      /\ SetRegistry(nl1)
                      /\ UNCHANGED i
                      /\ Stepped
                      /\ Logging
                      /\ IF made.status = "ok"
                         THEN Return("Ok", <<ComputationResult(made)>>)
                         ELSE Abort(made.status)
                 ELSE \E nl2 \in {InsertAll(nl1, AllDetails(parent, successors), 1)} :
                      /\ SetRegistry(nl2)
                      /\ i' = NextI
                      /\ Stepped
                      /\ Logging
                      /\ IF nl2.panicked THEN Abort("panic")
                         ELSE UNCHANGED <<pc, outcome, results>>

\* mutant: a successor at exactly max_score is discarded too
WithinBudgetStrict(parent, successors) ==
    SelectSeq(successors,
              LAMBDA s : ~(parent.current_accrued_cost + s.cost_to_move_here >= max_score))

\* the successor loop of a_star_search_all_with_max_score: the records to
\* insert, and the goal records to collect, in the order of generation
WithinBudget(parent, successors) ==
    SelectSeq(successors,
              LAMBDA s : ~(parent.current_accrued_cost + s.cost_to_move_here > max_score))

\* mutant: an accepted successor goes on to the Frontier as well
NextParentsAll(parent, successors) ==
    LET kept == WithinBudget(parent, successors)
    IN  [j \in 1..Len(kept) |-> SuccessorDetails(parent, kept[j])]

NextParents(parent, successors) ==
    LET kept == SelectSeq(WithinBudget(parent, successors),
                          LAMBDA s : ~is_at_end_function(s.node))
    IN  [j \in 1..Len(kept) |-> SuccessorDetails(parent, kept[j])]

\* mutant: a node that already ends a collected record is not collected again
NewScoringOnce(parent, successors) ==
    LET ends == SelectSeq(WithinBudget(parent, successors),
                          LAMBDA s : /\ is_at_end_function(s.node)
                                     /\ \A j \in 1 .. Len(scoring_results) :
                                            scoring_results[j].node # s.node)
    IN  [j \in 1..Len(ends) |-> EndDetails(parent, ends[j])]

NewScoring(parent, successors) ==
    LET ends == SelectSeq(WithinBudget(parent, successors),
                          LAMBDA s : is_at_end_function(s.node))
    IN  [j \in 1..Len(ends) |-> EndDetails(parent, ends[j])]

FirstBad(made) ==
    LET bad == {j \in 1..Len(made) : made[j].status # "ok"}
    IN  IF bad = {} THEN 0 ELSE SetMin(bad)

\* mutant: the result collection is not tested for emptiness
ExhaustedUnchecked(scoring, nl) ==
    [outcome |-> "Ok", made |-> make_results_multiple(scoring, nl)]

\* the else branch of `if let Ok(..) = node_list.get_next()`: what the call
\* returns once the Frontier is found empty
Exhausted(scoring, nl) ==
    IF scoring = <<>>
    THEN [outcome |-> "NoSolutionFound", made |-> <<>>]
    ELSE [outcome |-> "Ok", made |-> make_results_multiple(scoring, nl)]

\* one iteration of a_star_search_all_with_max_score's loop
a_star_search_all_with_max_score ==
    /\ pc = "loop"
    /\ mode = "all"
    /\ Len(scoring_results) <= MaxResults
    /\ UNCHANGED <<inputs, elsewhere>>
    /\ IF ~InRange
       THEN Return("IterLimitExceeded", <<>>)
            /\ UNCHANGED <<registry, i, steps, scoring_results, logging>>
       ELSE IF NextIds(NL) = {}
       THEN /\ UNCHANGED <<registry, i, steps, scoring_results, logging>>
            /\ LET ret == Exhausted(scoring_results, NL)
                   bad == FirstBad(ret.made)
               IN  IF bad = 0
                   THEN Return(ret.outcome,
                               [j \in 1 .. Len(ret.made) |-> ComputationResult(ret.made[j])])
                   ELSE Abort(ret.made[bad].status)
       ELSE \E index \in NextIds(NL) :
            \E nl1 \in {get_next(NL, index)} :
            IF nl1.panicked
            THEN Abort("panic") /\ SetRegistry(nl1)
                 /\ UNCHANGED <<i, steps, scoring_results, logging>>
            ELSE \E parent \in {nl1.node_history[index]} :
                 \E successors \in {get_successors(parent.node)} :
                 \E nl2 \in {InsertAll(nl1, NextParents(parent, successors), 1)} :
                      /\ SetRegistry(nl2)
                      /\ scoring_results' = scoring_results \o NewScoring(parent, successors)
                      /\ i' = NextI
                      /\ Stepped
                      /\ Logging
                      /\ IF nl2.panicked THEN Abort("panic")
                         ELSE UNCHANGED <<pc, outcome, results>>

----------------------------------------------------------------------------
(* The inputs *)

TableNodes == -1 .. 1

\* a table graph from its cost matrix (-1: no edge); the successors of a
\* node are listed in the order of their nodes
EdgesOf(w) ==
    [u \in TableNodes |->
        LET out == {v \in TableNodes : w[<<u, v>>] >= 0}
            RECURSIVE List(_)
            List(S) == IF S = {} THEN <<>>
                       ELSE LET v == SetMin(S)
                            IN  <<[node |-> v, cost_to_move_here |-> w[<<u, v>>]]>>
                                    \o List(S \ {v})
        IN  List(out)]

\* no self loops; an edge into the start node costs 0 (a costlier one is
\* always rejected by try_insert_successor)
TableWeights ==
    {w \in [TableNodes \X TableNodes -> -1 .. MaxCost] :
        \A u, v \in TableNodes :
            /\ u = v => w[<<u, v>>] = -1
            /\ (v = 0) => w[<<u, v>>] <= 0}

\* the state of the code that a call of the search does not touch
OldUnused ==
    /\ threads = 1
    /\ open_list = EmptyMap /\ closed_list = EmptyMap /\ solution = EmptyMap
    /\ batch = EmptyMap

BuildersUnused == options = EmptyMap /\ built = EmptyMap

StoresUnused ==
    /\ store_file = None /\ store_dir = FALSE /\ store_data = None /\ store_op = ""

TempUnused == temp = EmptyMap

Elsewhere == OldUnused /\ BuildersUnused /\ StoresUnused /\ TempUnused

\* no search is called: the variables of the search loops keep these values
SearchUnused ==
    /\ kind = "" /\ edges = EmptyMap /\ hmap = EmptyMap /\ goals = {}
    /\ target = 0 /\ start = 0 /\ same = TRUE /\ mode = "" /\ max_score = 0
    /\ iteration_limit = None /\ suppress_logs = TRUE /\ log_interval = 0
    /\ candidate_nodes = EmptyMap /\ node_history = EmptyMap
    /\ cost_indexing = EmptyMap /\ position_hash_to_min_accrued_cost = EmptyMap
    /\ scoring_results = <<>> /\ i = 1 /\ steps = 0
    /\ outcome = "" /\ results = <<>>
    /\ timeout = Timeout_start(log_interval) /\ progress = FALSE

Limits == {None} \cup {Some(l) : l \in 0 .. MaxLimit}

InitLine ==
    /\ kind = "line"
    /\ edges = EmptyMap
    /\ hmap = EmptyMap
    /\ start \in 0 .. 1
    /\ target \in (start - LineRange) .. (start + LineRange)
    /\ goals \in {{target}, {target + 1}, {}}
    /\ same = TRUE
    /\ mode = "single"
    /\ max_score = 0
    /\ iteration_limit \in Limits
    /\ goals = {} => iteration_limit # None

InitSquare ==
    /\ kind = "square"
    /\ edges = EmptyMap
    /\ hmap = EmptyMap
    /\ start = 0
    /\ target \in {k * k : k \in 1 .. MaxBudget + 1}
    /\ goals = {}
    /\ same \in BOOLEAN
    /\ mode = "all"
    /\ max_score \in 0 .. MaxBudget
    /\ iteration_limit \in Limits

InitTable ==
    /\ kind = "table"
    /\ edges \in {EdgesOf(w) : w \in TableWeights}
    /\ hmap \in {[n \in TableNodes |-> IF n = 0 THEN 0 ELSE f[n]] :
                    f \in [TableNodes -> {0, MaxH}]}
    /\ start = 0
    /\ target = 0
    /\ goals \in SUBSET (TableNodes \ {0})
    /\ same \in BOOLEAN
    /\ mode \in {"single", "all"}
    /\ max_score \in IF mode = "all" THEN 0 .. MaxTableBudget ELSE {0}
    /\ iteration_limit = None

\* graphs of free moves over 0..3: any edges out of 0, 1 and 2, node 3 accepted
LoopNodes == 0 .. 3

LoopEdgesOf(E) ==
    [u \in LoopNodes |->
        LET out == {v \in LoopNodes : <<u, v>> \in E}
            RECURSIVE List(_)
            List(S) == IF S = {} THEN <<>>
                       ELSE LET v == SetMin(S)
                            IN  <<[node |-> v, cost_to_move_here |-> 0]>> \o List(S \ {v})
        IN  List(out)]

InitLoops ==
    /\ kind = "loops"
    /\ edges \in {LoopEdgesOf(E) :
                    E \in SUBSET {e \in (LoopNodes \ {3}) \X LoopNodes : e[1] # e[2]}}
    /\ hmap = [n \in LoopNodes |-> 0]
    /\ start = 0
    /\ target = 3
    /\ goals = {3}
    /\ same \in BOOLEAN
    /\ mode = "single"
    /\ max_score = 0
    /\ iteration_limit = None

\* the state a search call is in when it reaches its loop
Called ==
    /\ candidate_nodes = NodeList_new(start).candidate_nodes
    /\ node_history = NodeList_new(start).node_history
    /\ cost_indexing = NodeList_new(start).cost_indexing
    /\ position_hash_to_min_accrued_cost =
           NodeList_new(start).position_hash_to_min_accrued_cost
    /\ scoring_results = <<>>
    /\ i = 1
    /\ steps = 0
    /\ pc = "loop"
    /\ outcome = ""
    /\ results = <<>>
    /\ timeout = Timeout_start(log_interval)
    /\ progress = FALSE
    /\ Elsewhere

\* calls with options.with_no_logs().with_log_interval(0 s)
Init ==
    /\ InitLine \/ InitSquare \/ InitTable \/ InitLoops
    /\ suppress_logs = TRUE
    /\ log_interval = 0
    /\ Called

Next == a_star_search \/ a_star_search_all_with_max_score

Spec == Init /\ [][Next]_vars

\* the same calls on the line and on the squares, under every setting of the
\* logging options
LogInit ==
    /\ InitLine \/ InitSquare
    /\ suppress_logs \in BOOLEAN
    /\ log_interval \in {0, DefaultLogInterval}
    /\ Called

LogSpec == LogInit /\ [][Next]_vars

\* The same search, seen from before the call: Idle is the caller that has
\* not called yet, and call_a_star_search is its call of a_star_search on a
\* table graph with no iteration limit, up to the construction of the
\* NodeList. Once called, the search runs on until it returns: the loop is
\* never left waiting.
Idle ==
    /\ pc = "idle"
    /\ kind = "" /\ edges = EmptyMap /\ hmap = EmptyMap /\ goals = {}
    /\ target = 0 /\ start = 0 /\ same = TRUE /\ mode = "" /\ max_score = 0
    /\ iteration_limit = None
    /\ candidate_nodes = EmptyMap /\ node_history = EmptyMap
    /\ cost_indexing = EmptyMap /\ position_hash_to_min_accrued_cost = EmptyMap
    /\ scoring_results = <<>> /\ i = 1 /\ steps = 0
    /\ outcome = "" /\ results = <<>>
    /\ suppress_logs = TRUE /\ log_interval = 0
    /\ timeout = Timeout_start(log_interval) /\ progress = FALSE
    /\ Elsewhere

call_a_star_search ==
    /\ pc = "idle"
    /\ pc' = "loop"
    /\ kind' = "table"
    /\ edges' \in {EdgesOf(w) : w \in TableWeights}
    /\ hmap' = [n \in TableNodes |-> 0]
    /\ goals' \in SUBSET (TableNodes \ {0})
    /\ same' \in BOOLEAN
    /\ mode' = "single"
    /\ start' = 0
    /\ candidate_nodes' = (NodeList_new(start).candidate_nodes)'
    /\ node_history' = (NodeList_new(start).node_history)'
    /\ cost_indexing' = (NodeList_new(start).cost_indexing)'
    /\ position_hash_to_min_accrued_cost' =
           (NodeList_new(start).position_hash_to_min_accrued_cost)'
    /\ UNCHANGED <<target, max_score, iteration_limit, suppress_logs, log_interval,
                   scoring_results, i, steps, outcome, results, logging, elsewhere>>

FairSingleSpec ==
    /\ Idle
    /\ [][call_a_star_search \/ a_star_search]_vars
    /\ WF_vars(a_star_search)

----------------------------------------------------------------------------
(* src/src/a_star.rs: the search with an open and a closed list, run        *)
(* sequentially or with a batch of `threads` nodes expanded per iteration.  *)
(* Both runs are followed on the same input, the sequential one first.      *)

MaxThreads == 2     \* num_cpus::get() in 1..MaxThreads

DagNodes == 0 .. 3

get_successors_wormhole(n) ==
    IF n = -1 THEN << [node |-> 7, cost_to_move_here |-> 1] >>
    ELSE << [node |-> n - 1, cost_to_move_here |-> 1],
            [node |-> n + 1, cost_to_move_here |-> 1] >>

distance_function_delay(n) == Abs(n - target)

\* the closures handed to the search of a_star.rs
old_get_successors(n) ==
    IF kind = "wormhole" THEN get_successors_wormhole(n) ELSE edges[n]

old_distance_function(n) ==
    IF kind = "wormhole" THEN distance_function_delay(n) ELSE hmap[n]

old_NodeDetails_new(g, h) == [g |-> g, h |-> h, parent |-> None]

new_with(g, h, parent, parent_details) ==
    [g |-> g, h |-> h, parent |-> Some(<<parent, parent_details>>)]

f(d) == d.g + d.h

\* Ordering::Less of sorting_function on two (node, details) pairs
sorting_function(a, b) ==
    \/ f(a[2]) < f(b[2])
    \/ f(a[2]) = f(b[2]) /\ a[1] < b[1]

\* the entries of a map in the order of sorting_function
RECURSIVE Sorted(_)
Sorted(m) ==
    IF DOMAIN m = {} THEN <<>>
    ELSE LET k == CHOOSE x \in DOMAIN m :
                      \A y \in (DOMAIN m) \ {x} : sorting_function(<<x, m[x]>>, <<y, m[y]>>)
         IN  <<<<k, m[k]>>>> \o Sorted(Del(m, k))

\* mutant: one entry more than asked for is taken
TakeOneMore(s, n) == SubSeq(s, 1, Min2(n + 1, Len(s)))

Take(s, n) == SubSeq(s, 1, Min2(n, Len(s)))

RECURSIVE run_get_successors_from(_, _, _, _, _)
run_get_successors_from(q_node, q_details, successors, j, acc) ==
    IF j > Len(successors) THEN [successors |-> acc, done |-> None]
    ELSE LET successor == successors[j].node
             to_current == q_details.g + successors[j].cost_to_move_here
         IN  IF successor = target
             THEN [successors |-> <<>>,
                   done |-> Some(<<successor, new_with(to_current, 0, q_node, q_details)>>)]
             ELSE run_get_successors_from(q_node, q_details, successors, j + 1,
                      Append(acc, <<successor,
                                    new_with(to_current, old_distance_function(successor),
                                             q_node, q_details)>>))

run_get_successors(q_node, q_details) ==
    run_get_successors_from(q_node, q_details, old_get_successors(q_node), 1, <<>>)

RECURSIVE old_backtrace(_, _)
old_backtrace(parent, acc) ==
    IF parent = None THEN acc
    ELSE old_backtrace(parent[1][2].parent, Append(acc, parent[1][1]))

old_make_results(end, details) ==
    Reverse(old_backtrace(details.parent, <<end>>))

\* what the caller gets, with the cost the search accrued for the path
Found(pair) ==
    [status |-> "Ok", path |-> old_make_results(pair[1], pair[2]), cost |-> pair[2].g]

\* `for (successor, details) in successors`: the open list after the loop
RECURSIVE InsertSuccessors(_, _, _, _)
InsertSuccessors(open, closed, successors, j) ==
    IF j > Len(successors) THEN open
    ELSE LET successor == successors[j][1]
             details == successors[j][2]
             skip == \/ successor \in DOMAIN open /\ f(open[successor]) < f(details)
                     \/ successor \in DOMAIN closed /\ f(closed[successor]) < f(details)
         IN  InsertSuccessors(IF skip THEN open ELSE Put(open, successor, details),
                              closed, successors, j + 1)

\* closed_list.extend(q_nodes)
RECURSIVE Extend(_, _, _)
Extend(closed, q_nodes, j) ==
    IF j > Len(q_nodes) THEN closed
    ELSE Extend(Put(closed, q_nodes[j][1], q_nodes[j][2]), q_nodes, j + 1)

\* the orders in which n workers can take the mutexes
Orders(n) == {o \in [1 .. n -> 1 .. n] : \A a, b \in 1 .. n : o[a] = o[b] => a = b}

RECURSIVE Concat(_, _)
Concat(lists, j) ==
    IF j > Len(lists) THEN <<>> ELSE lists[j] \o Concat(lists, j + 1)

\* mutant: the terminal record pushed first is returned
FirstPushed(final_results) == final_results[1]

\* mutant: the terminal record pushed last is returned
LastPushed(final_results) == final_results[Len(final_results)]

\* Iterator::min_by on g: the first of the least elements
FirstMinByG(final_results) ==
    LET least == SetMin({final_results[j][2].g : j \in 1 .. Len(final_results)})
    IN  final_results[SetMin({j \in 1 .. Len(final_results) :
                                  final_results[j][2].g = least})]

\* q_nodes of one iteration: the least entry, or the `threads` least entries
QNodes(open, run_in_parallel) ==
    Take(Sorted(open), IF run_in_parallel THEN threads ELSE 1)

\* one iteration of `while !open_list.is_empty()`, or the return after it
old_a_star_search(run_in_parallel) ==
    /\ pc = "old"
    /\ solution[run_in_parallel] = None
    /\ UNCHANGED <<inputs, search, logging, pc, threads, batch, builders, stores, temp>>
    /\ IF DOMAIN open_list[run_in_parallel] = {}
       THEN /\ solution' = [solution EXCEPT ![run_in_parallel] =
                                Some([status |-> "NoSolutionFound", path |-> <<>>, cost |-> 0])]
            /\ UNCHANGED <<open_list, closed_list>>
       ELSE \E q_nodes \in {QNodes(open_list[run_in_parallel], run_in_parallel)} :
            \E open \in {[n \in (DOMAIN open_list[run_in_parallel])
                                   \ {q_nodes[j][1] : j \in 1 .. Len(q_nodes)}
                              |-> open_list[run_in_parallel][n]]} :
            \E order \in Orders(Len(q_nodes)) :
            \E ran \in {[j \in 1 .. Len(q_nodes) |->
                            run_get_successors(q_nodes[order[j]][1], q_nodes[order[j]][2])]} :
            \E final_results \in {Concat([j \in 1 .. Len(ran) |->
                                     IF ran[j].done = None THEN <<>> ELSE <<ran[j].done[1]>>], 1)} :
            IF final_results # <<>>
            THEN /\ solution' = [solution EXCEPT ![run_in_parallel] =
                                     Some(Found(FirstMinByG(final_results)))]
                 /\ open_list' = [open_list EXCEPT ![run_in_parallel] = open]
                 /\ UNCHANGED closed_list
            ELSE \E successors \in {Concat([j \in 1 .. Len(ran) |-> ran[j].successors], 1)} :
                 /\ open_list' = [open_list EXCEPT ![run_in_parallel] =
                        InsertSuccessors(open, closed_list[run_in_parallel], successors, 1)]
                 /\ closed_list' = [closed_list EXCEPT ![run_in_parallel] =
                        Extend(closed_list[run_in_parallel], q_nodes, 1)]
                 /\ UNCHANGED solution

sequential_a_star_search == old_a_star_search(FALSE)

parallel_a_star_search ==
    /\ pc = "old"
    /\ solution[FALSE] # None
    /\ old_a_star_search(TRUE)

\* a graph over DagNodes whose edges all lead to a greater node (-1: no edge)
DagWeights ==
    {w \in [DagNodes \X DagNodes -> -1 .. MaxCost] :
        \A u, v \in DagNodes : u >= v => w[<<u, v>>] = -1}

DagEdgesOf(w) ==
    [u \in DagNodes |->
        LET out == {v \in DagNodes : w[<<u, v>>] >= 0}
            RECURSIVE List(_)
            List(S) == IF S = {} THEN <<>>
                       ELSE LET v == SetMin(S)
                            IN  <<[node |-> v, cost_to_move_here |-> w[<<u, v>>]]>>
                                    \o List(S \ {v})
        IN  List(out)]

\* a start with three successors, each with no edge or one edge to the target
FanNodes == 0 .. 4

FanWeights == [1 .. 3 -> 0 .. MaxCost] \X [1 .. 3 -> -1 .. MaxCost]

FanEdgesOf(w) ==
    [u \in FanNodes |->
        IF u = 0 THEN [k \in 1 .. 3 |-> [node |-> k, cost_to_move_here |-> w[1][k]]]
        ELSE IF u \in 1 .. 3 /\ w[2][u] >= 0
             THEN <<[node |-> 4, cost_to_move_here |-> w[2][u]]>>
             ELSE <<>>]

OldInit ==
    /\ pc = "old"
    /\ \/ /\ kind = "wormhole" /\ edges = EmptyMap /\ hmap = EmptyMap
          /\ start = 1 /\ target \in {7, 3}
       \/ /\ kind = "dag" /\ edges \in {DagEdgesOf(w) : w \in DagWeights}
          /\ hmap = [n \in DagNodes |-> 0]
          /\ start = 0 /\ target = 3
       \/ /\ kind = "fan" /\ edges \in {FanEdgesOf(w) : w \in FanWeights}
          /\ hmap = [n \in FanNodes |-> 0]
          /\ start = 0 /\ target = 4
    /\ goals = {target} /\ same = TRUE /\ mode = "" /\ max_score = 0
    /\ iteration_limit = None
    /\ candidate_nodes = EmptyMap /\ node_history = EmptyMap
    /\ cost_indexing = EmptyMap /\ position_hash_to_min_accrued_cost = EmptyMap
    /\ scoring_results = <<>> /\ i = 1 /\ steps = 0
    /\ outcome = "" /\ results = <<>>
    /\ suppress_logs = TRUE /\ log_interval = 0
    /\ timeout = Timeout_start(log_interval) /\ progress = FALSE
    /\ BuildersUnused /\ StoresUnused /\ TempUnused
    /\ threads \in 1 .. MaxThreads
    /\ open_list = [p \in BOOLEAN |-> Put(EmptyMap, start, old_NodeDetails_new(0, 0))]
    /\ closed_list = [p \in BOOLEAN |-> EmptyMap]
    /\ solution = [p \in BOOLEAN |-> None]
    /\ batch = EmptyMap

OldNext == sequential_a_star_search \/ parallel_a_star_search

OldSpec == OldInit /\ [][OldNext]_vars

\* the calls of the search of a_star/mod.rs and those of a_star.rs
SearchesSpec == (Init \/ OldInit) /\ [][Next \/ OldNext]_vars

----------------------------------------------------------------------------
(* src/src/a_star/options.rs: Options::default and the builders, called in  *)
(* any order and any number of times                                        *)

MaxInterval == 1    \* with_log_interval is called with 0..MaxInterval seconds, or with the default

Options_default ==
    [custom_end_condition |-> None,
     log_interval |-> DefaultLogInterval,
     suppress_logs |-> FALSE,
     iteration_limit |-> None]

with_ending_condition(self, ending_condition) ==
    [self EXCEPT !.custom_end_condition = Some(ending_condition)]

with_log_interval(self, interval) == [self EXCEPT !.log_interval = interval]

with_no_logs(self) == [self EXCEPT !.suppress_logs = TRUE]

\* mutant: the builder starts again from the default options
with_iteration_limit_anew(self, limit) ==
    [Options_default EXCEPT !.iteration_limit = Some(limit)]

with_iteration_limit(self, limit) == [self EXCEPT !.iteration_limit = Some(limit)]

Builders == {"with_ending_condition", "with_log_interval", "with_no_logs",
             "with_iteration_limit"}

\* two closures a caller may hand to with_ending_condition
EndingConditions == {"equal", "near"}

Built(builder, argument) ==
    /\ built' = [built EXCEPT ![builder] = Some(argument)]
    /\ UNCHANGED <<inputs, search, logging, pc, old_search, stores, temp>>

call_with_ending_condition ==
    /\ pc = "options"
    /\ \E c \in EndingConditions :
          /\ options' = with_ending_condition(options, c)
          /\ Built("with_ending_condition", c)

call_with_log_interval ==
    /\ pc = "options"
    /\ \E d \in (0 .. MaxInterval) \cup {DefaultLogInterval} :
          /\ options' = with_log_interval(options, d)
          /\ Built("with_log_interval", d)

call_with_no_logs ==
    /\ pc = "options"
    /\ options' = with_no_logs(options)
    /\ Built("with_no_logs", TRUE)

call_with_iteration_limit ==
    /\ pc = "options"
    /\ \E l \in 0 .. MaxLimit :
          /\ options' = with_iteration_limit(options, l)
          /\ Built("with_iteration_limit", l)

OptionsInit ==
    /\ pc = "options"
    /\ SearchUnused /\ OldUnused /\ StoresUnused /\ TempUnused
    /\ options = Options_default
    /\ built = [b \in Builders |-> None]

OptionsNext ==
    \/ call_with_ending_condition
    \/ call_with_log_interval
    \/ call_with_no_logs
    \/ call_with_iteration_limit

OptionsSpec == OptionsInit /\ [][OptionsNext]_vars

----------------------------------------------------------------------------
(* src/src/store.rs: one Store<A> over one store_path, A being the          *)
(* two-byte StoreData of the tests; the file system is shared with whoever  *)
(* removes the directory of the file                                        *)

MaxByte == 3        \* the fields of A take the values 0..MaxByte

A_default == [b |-> 0, c |-> 0]

serialize(self) == <<self.b, self.c>>

deserialize(bytes) ==
    CASE Len(bytes) = 1 -> [b |-> bytes[1], c |-> 0]
      [] Len(bytes) = 2 -> [b |-> bytes[1], c |-> bytes[2]]
      [] OTHER -> A_default

\* the closures handed to with_mut: they set one field
Closures == {[field |-> fld, value |-> v] : fld \in {"b", "c"}, v \in 0 .. MaxByte}

Apply(fun, val) ==
    IF fun.field = "b" THEN [val EXCEPT !.b = fun.value] ELSE [val EXCEPT !.c = fun.value]

\* fs::write(&self.store_path, bytes): the file after the call, which fails
\* when the directory of the path is not there
fs_write(bytes) == IF store_dir THEN Some(bytes) ELSE store_file

\* flush_not_thread_safe: an error of fs::write is logged and dropped
flush_not_thread_safe(val) == store_file' = fs_write(serialize(val))

StoreFrame == UNCHANGED <<inputs, search, logging, pc, old_search, builders, temp>>

Store_new ==
    /\ pc = "store"
    /\ store_data = None
    /\ store_dir' = TRUE
    /\ store_data' = Some(IF store_file = None THEN A_default
                          ELSE deserialize(store_file[1]))
    /\ store_op' = "new"
    /\ UNCHANGED store_file
    /\ StoreFrame

with_mut ==
    /\ pc = "store"
    /\ store_data # None
    /\ \E fun \in Closures :
       \E val \in {Apply(fun, store_data[1])} :
          /\ store_data' = Some(val)
          /\ flush_not_thread_safe(val)
    /\ store_op' = "with_mut"
    /\ UNCHANGED store_dir
    /\ StoreFrame

with ==
    /\ pc = "store"
    /\ store_data # None
    /\ store_op' = "with"
    /\ UNCHANGED <<store_file, store_dir, store_data>>
    /\ StoreFrame

drop_store ==
    /\ pc = "store"
    /\ store_data # None
    /\ store_data' = None
    /\ store_op' = "drop"
    /\ UNCHANGED <<store_file, store_dir>>
    /\ StoreFrame

\* the directory of store_path is removed with what it holds (the TempDir
\* of the tests is, when it is dropped)
remove_dir_all ==
    /\ pc = "store"
    /\ store_dir
    /\ store_dir' = FALSE
    /\ store_file' = None
    /\ store_op' = "remove_dir_all"
    /\ UNCHANGED store_data
    /\ StoreFrame

StoreInit ==
    /\ pc = "store"
    /\ SearchUnused /\ OldUnused /\ BuildersUnused /\ TempUnused
    /\ store_file \in {None, Some(<<>>), Some(<<1>>), Some(<<1, 2>>), Some(<<1, 2, 0>>)}
    /\ store_dir = (store_file # None)
    /\ store_data = None
    /\ store_op = ""

StoreNext == Store_new \/ with_mut \/ with \/ drop_store \/ remove_dir_all

StoreSpec == StoreInit /\ [][StoreNext]_vars

----------------------------------------------------------------------------
(* src/src/temp.rs: one TempFile and one TempDir, each with its own path    *)
(* (the names carry a fresh Uuid); a removal may fail for reasons of the    *)
(* file system, which the model leaves open                                 *)

\* ExponentialBuilder::default() of backon: three retries after the first
\* call, the delay starting at one second and doubling up to a minute
MaxTimes == 3
MinDelay == 1
Factor == 2
MaxDelay == 60

Temps == {"file", "dir"}

\* state: "none" before new, "alive" while the value is owned, "removed"
\* once a removal returned Ok, "retrying" while the spawned closure runs,
\* "gave_up" once it logged its error.  exists: the path is on the file
\* system; inner: so is the file created inside the directory; is_dir: what
\* remove read before its first attempt; times: the delays slept so far,
\* delay: the last of them
Fresh ==
    [state |-> "none", exists |-> FALSE, inner |-> FALSE, is_dir |-> FALSE,
     times |-> 0, delay |-> 0]

TempFrame == UNCHANGED <<inputs, search, logging, pc, old_search, builders, stores>>

\* std::fs::remove_dir_all(&path) or std::fs::remove_file(&path): the
\* outcomes of one call.  A path that is not there gives an error; a
\* remove_dir_all that fails may have removed what the directory held
remove_call(t) ==
    LET ok == {[ok |-> TRUE, exists |-> FALSE, inner |-> FALSE]}
        err == {[ok |-> FALSE, exists |-> t.exists, inner |-> in] :
                    in \in (IF t.is_dir THEN {t.inner, FALSE} ELSE {t.inner})}
    IN  IF t.exists THEN ok \cup err ELSE err

\* the first attempt failed: rayon::spawn of the retrying closure
remove_failed_unspawned == "gave_up"

remove_failed == "retrying"

\* remove(path), as Drop for TempFile and Drop for TempDir call it
remove(t, o) ==
    LET u == [t EXCEPT !.is_dir = t.exists /\ o = "dir"]
    IN  {[u EXCEPT !.state = IF r.ok THEN "removed" ELSE remove_failed,
                   !.exists = r.exists, !.inner = r.inner] : r \in remove_call(u)}

\* the delay the backoff hands out after the delay before
next_delay(delay) == IF delay * Factor > MaxDelay THEN MaxDelay ELSE delay * Factor

\* TempFile::new and TempDir::new: the path is created, or creating it fails
\* and the value built for it is dropped at the `?`
Temp_new(o) ==
    /\ pc = "temp"
    /\ temp[o].state = "none"
    /\ \/ temp' = [temp EXCEPT ![o] = [@ EXCEPT !.state = "alive", !.exists = TRUE]]
       \/ \E u \in remove(temp[o], o) : temp' = [temp EXCEPT ![o] = u]
    /\ TempFrame

\* std::fs::File::create of a file inside the directory
create_inside ==
    /\ pc = "temp"
    /\ temp["dir"].state = "alive"
    /\ ~temp["dir"].inner
    /\ temp' = [temp EXCEPT !["dir"].inner = TRUE]
    /\ TempFrame

Temp_drop(o) ==
    /\ pc = "temp"
    /\ temp[o].state = "alive"
    /\ \E u \in remove(temp[o], o) : temp' = [temp EXCEPT ![o] = u]
    /\ TempFrame

\* one call of the closure under remove.retry(..).call(): Ok ends it, an
\* error sleeps for the next delay, or ends it when no delay is left
retry(o) ==
    /\ pc = "temp"
    /\ temp[o].state = "retrying"
    /\ \E r \in remove_call(temp[o]) :
          temp' = [temp EXCEPT ![o] =
              IF r.ok
              THEN [@ EXCEPT !.state = "removed", !.exists = FALSE, !.inner = FALSE]
              ELSE IF @.times < MaxTimes
              THEN [@ EXCEPT !.times = @ + 1, !.delay = IF @ = 0 THEN MinDelay ELSE next_delay(@),
                             !.exists = r.exists, !.inner = r.inner]
              ELSE [@ EXCEPT !.state = "gave_up", !.exists = r.exists, !.inner = r.inner]]
    /\ TempFrame

TempInit ==
    /\ pc = "temp"
    /\ SearchUnused /\ OldUnused /\ BuildersUnused /\ StoresUnused
    /\ temp = [o \in Temps |-> Fresh]

TempNext ==
    \/ \E o \in Temps : Temp_new(o)
    \/ create_inside
    \/ \E o \in Temps : Temp_drop(o)
    \/ \E o \in Temps : retry(o)

TempSpec == TempInit /\ [][TempNext]_vars

\* the closure spawned on the rayon pool runs to its end
TempFairSpec == TempSpec /\ \A o \in Temps : WF_vars(retry(o))

----------------------------------------------------------------------------
(* What the graph itself says, for the claims *)

Last(s) == s[Len(s)]

\* the costs of the walks of at most k edges that start at node a of a table
\* graph and leave only nodes of `through`, per end node
RECURSIVE WalkCosts(_, _, _)
WalkCosts(a, through, k) ==
    IF k = 0 THEN [n \in TableNodes |-> IF n = a THEN {0} ELSE {}]
    ELSE LET prev == WalkCosts(a, through, k - 1)
         IN  [n \in TableNodes |->
                prev[n] \cup
                UNION {UNION {{c + edges[u][j].cost_to_move_here : c \in prev[u]} :
                                j \in {x \in 1 .. Len(edges[u]) : edges[u][x].node = n}} :
                         u \in through}]

\* with costs >= 0 a cheapest walk is a simple path: fewer edges than nodes
PathCosts(a, through) == WalkCosts(a, through, Cardinality(TableNodes))

\* the heuristic never overestimates the cost that remains to a goal
Admissible ==
    CASE kind = "table" ->
            \A n \in TableNodes : \A g \in goals :
                \A c \in PathCosts(n, TableNodes)[g] : hmap[n] <= c
      [] kind = "line" -> goals = {target}
      [] kind = "square" -> FALSE

\* the least total edge cost of a path from the start node to an accepted node
MinGoalCost ==
    IF kind = "table"
    THEN SetMin(UNION {PathCosts(start, TableNodes)[g] : g \in goals})
    ELSE Abs(target - start)

\* the line from a to b, both ends included
MonotonePath(a, b) ==
    [k \in 1 .. Abs(b - a) + 1 |-> IF a <= b THEN a + (k - 1) ELSE a - (k - 1)]

NoLimit == iteration_limit = None
Running == pc = "loop"
Returned == pc = "done"

----------------------------------------------------------------------------
(* C1: with edge costs >= 0 and an admissible heuristic, whenever
   a_star_search returns Ok its shortest_path_cost is the least total edge
   cost of a path from the start node to a node the predicate accepts.
   (Stated for start nodes the predicate rejects.) *)
C1_OptimalCost ==
    (mode = "single" /\ outcome = "Ok" /\ kind # "square"
        /\ start \notin goals /\ Admissible)
    => results[1].shortest_path_cost = MinGoalCost

(* C2: on the integer line with heuristic |n - target| and predicate
   node = target, a_star_search from s to t # s never fails otherwise than by
   the iteration limit, and returns the monotone path s..t with cost |t - s|;
   from 1 to 7 that is [1,2,3,4,5,6,7] with cost 6. *)
C2_LinePath ==
    (kind = "line" /\ goals = {target} /\ start # target)
    => /\ pc \in {"loop", "done"}
       /\ Returned =>
            \/ /\ outcome = "Ok"
               /\ results = << [shortest_path |-> MonotonePath(start, target),
                                shortest_path_cost |-> Abs(target - start)] >>
               /\ (start = 1 /\ target = 7) =>
                      /\ results[1].shortest_path = <<1, 2, 3, 4, 5, 6, 7>>
                      /\ results[1].shortest_path_cost = 6
            \/ /\ outcome = "IterLimitExceeded"
               /\ ~NoLimit

C2_Witness ==
    /\ kind = "line" /\ goals = {target} /\ start = 1 /\ target = 7
    /\ NoLimit /\ Returned /\ outcome = "Ok"
    /\ results[1].shortest_path = <<1, 2, 3, 4, 5, 6, 7>>

(* C3: the termination predicate alone decides where a_star_search stops:
   the last node of every returned path satisfies it, and on the line the
   search goes past the node the heuristic aims at when the predicate wants
   the next one; from 1, heuristic aimed at 7, predicate node = 8, the
   result is [1,2,3,4,5,6,7,8] with cost 7. *)
C3_PredicateDecides ==
    /\ (mode = "single" /\ outcome = "Ok")
        => /\ Len(results) = 1
           /\ is_at_end_function(Last(results[1].shortest_path))
    /\ (kind = "line" /\ goals = {target + 1} /\ start <= target /\ Returned)
        => \/ /\ outcome = "Ok"
              /\ results = << [shortest_path |-> MonotonePath(start, target + 1),
                               shortest_path_cost |-> target + 1 - start] >>
              /\ (start = 1 /\ target = 7) =>
                     /\ results[1].shortest_path = <<1, 2, 3, 4, 5, 6, 7, 8>>
                     /\ results[1].shortest_path_cost = 7
           \/ /\ outcome = "IterLimitExceeded"
              /\ ~NoLimit

C3_Witness ==
    /\ kind = "line" /\ goals = {8} /\ start = 1 /\ target = 7
    /\ NoLimit /\ Returned /\ outcome = "Ok"
    /\ results[1].shortest_path = <<1, 2, 3, 4, 5, 6, 7, 8>>
    /\ results[1].shortest_path_cost = 7

(* C4: a_star_search_all_with_max_score from 0 with budget B on the line,
   predicate n*n = k*k with 1 <= k <= B, returns exactly two results, the
   paths 0..k and 0..-k, each with cost k, with identity = position keys and
   with position key |n|. *)
SquareRoot == CHOOSE k \in 0 .. MaxBudget + 1 : k * k = target

C4_BothPaths ==
    (kind = "square" /\ SquareRoot <= max_score)
    => /\ pc \in {"loop", "done"}
       /\ Returned =>
            \/ /\ outcome = "Ok"
               /\ Len(results) = 2
               /\ {results[1], results[2]} =
                    { [shortest_path |-> MonotonePath(0, SquareRoot),
                       shortest_path_cost |-> SquareRoot],
                      [shortest_path |-> MonotonePath(0, -SquareRoot),
                       shortest_path_cost |-> SquareRoot] }
            \/ /\ outcome = "IterLimitExceeded"
               /\ ~NoLimit

C4_Witness ==
    /\ kind = "square" /\ max_score = 5 /\ target = 25 /\ ~same /\ NoLimit
    /\ outcome = "Ok"
    /\ Len(results) = 2
    /\ \E j \in 1 .. 2 : results[j].shortest_path = <<0, -1, -2, -3, -4, -5>>

(* C5: the goals a budgeted search must return. GoalsWithin(through) are the
   accepted nodes that a path of total cost <= max_score reaches from the
   start node leaving only nodes of `through`. *)
GoalsWithin(through) ==
    IF kind = "table"
    THEN {g \in goals : \E c \in PathCosts(start, through)[g] : c <= max_score}
    ELSE IF SquareRoot <= max_score THEN {SquareRoot, -SquareRoot} ELSE {}

ResultEnds == {Last(results[j].shortest_path) : j \in 1 .. Len(results)}

(* C5 as claimed: when the budgeted search returns Ok (identity = position,
   no iteration limit), every accepted node that a path of cost <= max_score
   reaches from the start is the last node of a result. *)
C5_EveryGoalWithinBudget ==
    (mode = "all" /\ same /\ NoLimit /\ outcome = "Ok")
    => GoalsWithin(TableNodes) \subseteq ResultEnds

(* What the code does return: every accepted node that a path of cost <= max_score
   reaches from the start without passing through another accepted node
   (the start node apart) is the last node of a result. *)
EveryGoalNotBehindAGoal ==
    (mode = "all" /\ same /\ NoLimit /\ outcome = "Ok")
    => GoalsWithin((TableNodes \ goals) \cup {start}) \subseteq ResultEnds

(* C6: in the budgeted search no record with accrued cost > max_score is in
   the Frontier, the History or the result collection, every returned result
   costs <= max_score, and a successor generated at exactly max_score is
   kept: collected when accepted, handed to try_insert_successor otherwise. *)
AllRecords ==
    {candidate_nodes[k] : k \in DOMAIN candidate_nodes}
        \cup {node_history[k] : k \in DOMAIN node_history}
        \cup {scoring_results[j] : j \in 1 .. Len(scoring_results)}

C6_Budget ==
    mode = "all"
    => /\ \A r \in AllRecords : r.current_accrued_cost <= max_score
       /\ \A j \in 1 .. Len(results) : results[j].shortest_path_cost <= max_score
       /\ pc # "panic" =>
            \A k \in DOMAIN node_history :
                LET p == node_history[k]
                    succ == get_successors(p.node)
                IN  \A j \in 1 .. Len(succ) :
                        p.current_accrued_cost + succ[j].cost_to_move_here = max_score
                        => IF is_at_end_function(succ[j].node)
                           THEN \E x \in 1 .. Len(scoring_results) :
                                    scoring_results[x] = EndDetails(p, succ[j])
                           ELSE LET pos == get_position_hash(succ[j].node)
                                IN  /\ pos \in DOMAIN position_hash_to_min_accrued_cost
                                    /\ position_hash_to_min_accrued_cost[pos] <= max_score

C6_Witness ==
    /\ mode = "all" /\ max_score > 0
    /\ \E j \in 1 .. Len(scoring_results) :
            scoring_results[j].current_accrued_cost = max_score
    /\ \E k \in DOMAIN node_history :
            node_history[k].current_accrued_cost = max_score

(* C7: in the budgeted search accepting a goal never ends the search: a step
   that collects a result leaves the loop running; the call returns Ok only
   in the step that finds the Frontier empty with at least one result
   collected, and NoSolutionFound only in the step that finds the Frontier
   empty with none; and a step that finds the Frontier empty returns. *)
C7_Step ==
    mode = "all" =>
        /\ Len(scoring_results') > Len(scoring_results) => pc' = "loop"
        /\ (outcome = "" /\ outcome' = "Ok")
            => /\ InRange
               /\ candidate_nodes = EmptyMap
               /\ scoring_results # <<>>
               /\ Len(results') = Len(scoring_results)
        /\ (outcome = "" /\ outcome' = "NoSolutionFound")
            => /\ InRange
               /\ candidate_nodes = EmptyMap
               /\ scoring_results = <<>>
        /\ (Running /\ InRange /\ candidate_nodes = EmptyMap)
            => /\ ~Running'
               /\ scoring_results = <<>> => outcome' = "NoSolutionFound"
        /\ (Running /\ InRange /\ candidate_nodes # EmptyMap)
            => /\ outcome' = ""
               /\ steps < StepCap => steps' = steps + 1

C7_AcceptingNeverEnds == [][C7_Step]_vars

C7_Witness ==
    /\ mode = "all" /\ Running /\ InRange
    /\ scoring_results # <<>>
    /\ candidate_nodes # EmptyMap

(* C8: on a finite graph with edge costs >= 0 in which no reachable node is
   accepted, and with no iteration limit, a_star_search terminates and
   returns NoSolutionFound, for identity = position keys and for distinct
   ones. *)
NoGoalReachable ==
    kind = "table" /\ \A g \in goals : PathCosts(start, TableNodes)[g] = {}

C8_Exhausts ==
    (Running /\ mode = "single" /\ NoLimit /\ NoGoalReachable)
    ~> (Returned /\ outcome = "NoSolutionFound")

(* C9: with a finite iteration_limit L a search call performs at most L
   extract-and-expand steps and then leaves the loop: a step is taken only
   while fewer than L were performed, and every pass through the loop either
   returns or adds one to the steps performed. On the infinite line with no
   accepted node the call returns IterLimitExceeded, and the Frontier and the
   History together hold at most 1 + L * (number of successors of a node)
   records. *)
BranchingFactor == Len(LineSuccessors(0))

RecordsHeld == Cardinality(DOMAIN candidate_nodes) + Cardinality(DOMAIN node_history)

C9_State ==
    iteration_limit # None =>
        /\ pc \in {"loop", "done"}
        /\ steps <= iteration_limit[1]
        /\ (Running /\ InRange) => steps < iteration_limit[1]
        /\ (kind = "line" /\ goals = {})
            => /\ Returned => outcome = "IterLimitExceeded"
               /\ RecordsHeld <= 1 + iteration_limit[1] * BranchingFactor

C9_Step ==
    /\ C9_State
    /\ C9_State'
    /\ (iteration_limit # None /\ Running) => (~Running' \/ steps' = steps + 1)

C9_LimitBounds == [][C9_Step]_vars

C9_Witness ==
    /\ kind = "line" /\ goals = {} /\ iteration_limit = Some(MaxLimit)
    /\ Returned /\ outcome = "IterLimitExceeded"
    /\ steps = MaxLimit - 1
    /\ RecordsHeld > steps

(* C10: with iteration_limit = L a search fails with IterLimitExceeded only
   after L extract-and-expand steps were performed: a run that returns a
   result within its first L steps is not cut off (on the line, the run from
   s to t returns in its step |t - s|). *)
C10_NotCutShort ==
    /\ outcome = "IterLimitExceeded" => steps >= iteration_limit[1]
    /\ (kind = "line" /\ goals = {target} /\ start # target /\ Returned
            /\ iteration_limit # None /\ Abs(target - start) <= iteration_limit[1])
        => outcome = "Ok"

----------------------------------------------------------------------------
(* The search of a_star.rs, its two modes on one input *)

BothReturned == pc = "old" /\ solution[FALSE] # None /\ solution[TRUE] # None

(* C11: for the same start node, successor function, distance function and
   target, sequential and parallel expansion (any worker count) return paths
   of equal total cost. *)
C11_EqualCost ==
    BothReturned
    => /\ solution[TRUE][1].status = solution[FALSE][1].status
       /\ solution[TRUE][1].cost = solution[FALSE][1].cost

(* C12: for every input, the total cost of the path parallel expansion
   returns is less than or equal to the total cost of the path sequential
   expansion returns. *)
C12_ParallelNotWorse ==
    (BothReturned /\ solution[FALSE][1].status = "Ok" /\ solution[TRUE][1].status = "Ok")
    => solution[TRUE][1].cost <= solution[FALSE][1].cost

----------------------------------------------------------------------------
(* try_insert_successor on a registry the search has built *)

Held == {candidate_nodes[k] : k \in DOMAIN candidate_nodes}
            \cup {node_history[k] : k \in DOMAIN node_history}

\* records for nodes the registry knows, at the cost of a held record of
\* the same identity or one more, under any parent the History holds
Reinserted ==
    {new_with_parent(r.node, r.current_accrued_cost + more,
                     distance_function(r.node), p) :
        r \in Held, more \in 0 .. 1, p \in {node_history[k] : k \in DOMAIN node_history}}

Dominated(d) ==
    LET id == get_node_id(d.node)
    IN  \/ /\ id \in DOMAIN candidate_nodes
           /\ candidate_nodes[id].current_accrued_cost <= d.current_accrued_cost
        \/ /\ id \in DOMAIN node_history
           /\ node_history[id].current_accrued_cost <= d.current_accrued_cost

(* C13: try_insert_successor called with a record whose identity key is
   already in the Frontier or in the History with an accrued cost <= the
   record's leaves Frontier, cost index, position table and History
   unchanged, whether or not identity and position coincide. *)
C13_DominatedIsNoOp ==
    \A d \in Reinserted : Dominated(d) => try_insert_successor(NL, d) = NL

----------------------------------------------------------------------------
(* Frontier and History *)

(* C19: after any sequence of insertions and extractions no identity key is
   in the Frontier and in the History at the same time. *)
C19_FrontierHistoryDisjoint ==
    (DOMAIN candidate_nodes) \cap (DOMAIN node_history) = {}

(* C20: once a record is stored in the History under identity key k,
   History[k] is not overwritten and not removed while the search goes on:
   no identity key is expanded twice in one call. *)
C20_Step ==
    \A k \in DOMAIN node_history :
        /\ k \in DOMAIN node_history'
        /\ node_history'[k] = node_history[k]

C20_HistoryAppendOnly == [][C20_Step]_vars

----------------------------------------------------------------------------
(* How a call ends *)

(* C14: a run of a search entry point that ends, ends by returning Ok,
   NoSolutionFound, IterLimitExceeded or UnexpectedError: a parent key
   missing from the History during backtrace is returned as
   UnexpectedError, and neither aborts the program nor loops for ever. *)
C14_EndsByReturning ==
    /\ pc \in {"idle", "loop", "done"}
    /\ pc = "done" => outcome \in {"Ok", "NoSolutionFound", "IterLimitExceeded",
                                   "UnexpectedError"}

----------------------------------------------------------------------------
(* The logging options and the progress timer *)

RegistryOf(nl) ==
    <<nl.candidate_nodes, nl.node_history, nl.cost_indexing,
      nl.position_hash_to_min_accrued_cost>>

\* what an iteration that extracts `index` does to the search, told without
\* the logging options, the Timeout and the progress lines
Expands(index) ==
    LET nl1 == get_next(NL, index)
        parent == nl1.node_history[index]
        successors == get_successors(parent.node)
        hit == FirstAccepted(successors)
    IN  /\ steps' = Min2(steps + 1, StepCap)
        /\ IF mode = "single" /\ hit # 0
           THEN /\ pc' = "done" /\ outcome' = "Ok"
                /\ results' = <<ComputationResult(
                                    make_results(EndDetails(parent, successors[hit]), nl1))>>
                /\ registry' = RegistryOf(nl1)
                /\ UNCHANGED <<i, scoring_results>>
           ELSE /\ pc' = "loop"
                /\ i' = (IF iteration_limit = None THEN i ELSE i + 1)
                /\ UNCHANGED <<outcome, results>>
                /\ IF mode = "single"
                   THEN /\ registry' = RegistryOf(InsertAll(nl1, AllDetails(parent, successors), 1))
                        /\ UNCHANGED scoring_results
                   ELSE /\ registry' = RegistryOf(InsertAll(nl1, NextParents(parent, successors), 1))
                        /\ scoring_results' = scoring_results \o NewScoring(parent, successors)

(* C15: what a search call does to the Frontier, the History and the step
   count, and what it returns, is the same for every log_interval, every
   suppress_logs and every reading of the progress timer: each iteration is
   the one the search state alone prescribes, and the options decide only
   whether the progress line is written. *)
C15_Step ==
    /\ pc = "loop" =>
          IF ~(iteration_limit = None \/ i < iteration_limit[1])
          THEN /\ pc' = "done" /\ outcome' = "IterLimitExceeded"
               /\ UNCHANGED <<registry, steps, scoring_results>>
          ELSE IF DOMAIN candidate_nodes = {}
          THEN /\ pc' = "done"
               /\ outcome' = (IF mode = "all" /\ scoring_results # <<>>
                              THEN "Ok" ELSE "NoSolutionFound")
               /\ Len(results') = (IF mode = "all" THEN Len(scoring_results) ELSE 0)
               /\ UNCHANGED <<registry, steps, scoring_results>>
          ELSE \E index \in NextIds(NL) : Expands(index)
    /\ progress' => ~suppress_logs
    /\ UNCHANGED <<suppress_logs, log_interval>>

C15_LoggingIsObservational == [][C15_Step]_vars

C15_Witness ==
    /\ kind = "line" /\ start = 1 /\ target = 4 /\ goals = {target} /\ NoLimit
    /\ ~suppress_logs /\ log_interval = DefaultLogInterval
    /\ progress
    /\ Returned /\ outcome = "Ok"
    /\ results[1].shortest_path = <<1, 2, 3, 4>>

----------------------------------------------------------------------------
(* Options *)

(* C16: Options::default() has log_interval = 5 seconds, suppress_logs =
   false, no iteration_limit and no custom_end_condition, and each builder
   changes only its own field: after any calls of the builders, in any
   order, every field holds the argument of the latest call of its own
   builder, or its default when that builder was not called. *)
C16_BuildersIndependent ==
    pc = "options"
    => options = [custom_end_condition |-> built["with_ending_condition"],
                  log_interval |-> IF built["with_log_interval"] = None
                                   THEN 5 ELSE built["with_log_interval"][1],
                  suppress_logs |-> built["with_no_logs"] # None,
                  iteration_limit |-> built["with_iteration_limit"]]

C16_Witness ==
    /\ pc = "options"
    /\ \A b \in Builders : built[b] # None
    /\ options = [custom_end_condition |-> Some("near"),
                  log_interval |-> 0,
                  suppress_logs |-> TRUE,
                  iteration_limit |-> Some(MaxLimit)]

----------------------------------------------------------------------------
(* Store *)

(* C17: after every completed Store::with_mut(f) the file at store_path
   holds serialize(v) for the in-memory value v left by f (so that a Store
   opened later on the path starts from the last value written). *)
C17_FileHoldsValue ==
    (pc = "store" /\ store_op = "with_mut")
    => store_file = Some(serialize(store_data[1]))

----------------------------------------------------------------------------
(* TempFile and TempDir *)

Dropped(o) == temp[o].state \in {"removed", "retrying", "gave_up"}

Gone(o) == ~temp[o].exists /\ ~temp[o].inner

Exhausted_retries(o) == temp[o].state = "gave_up" /\ temp[o].times = MaxTimes

\* the delays double from MinDelay
Backoff(o) ==
    temp[o].times > 0 =>
        /\ temp[o].times = 1 => temp[o].delay = MinDelay
        /\ temp[o].times = 2 => temp[o].delay = MinDelay * Factor
        /\ temp[o].times = 3 => temp[o].delay = MinDelay * Factor * Factor

C18_Settled(o) ==
    /\ temp[o].state = "removed" => Gone(o)
    /\ temp[o].state = "gave_up" => temp[o].times = MaxTimes
    /\ (Dropped(o) /\ ~Gone(o)) => (temp[o].state = "retrying" \/ Exhausted_retries(o))
    /\ Backoff(o)

(* C18: once a TempFile or TempDir has been dropped, its path is gone from
   the file system, with the files created inside a directory, unless the
   first removal failed; then the removal is retried in the background
   with exponentially growing delays, and in the end the path is gone or
   the retries are exhausted. *)
C18_DroppedIsRemoved ==
    \A o \in Temps :
        /\ [](pc = "temp" => C18_Settled(o))
        /\ (pc = "temp" /\ Dropped(o)) ~> (Gone(o) \/ Exhausted_retries(o))

\* a directory with a file inside is removed by a retry after two failures
C18_Witness ==
    /\ pc = "temp"
    /\ temp["dir"].state = "removed"
    /\ temp["dir"].is_dir
    /\ temp["dir"].times = 2
    /\ temp["file"].state = "removed"
    /\ temp["file"].times = 0

----------------------------------------------------------------------------
(* The Frontier against the records of the same identity or position *)

\* r is a record under key k; the other records of the same identity key or
\* the same position key, in the Frontier and in the History
Rivals(k) ==
    LET position == get_position_hash(candidate_nodes[k].node)
    IN  {candidate_nodes[x] : x \in {y \in (DOMAIN candidate_nodes) \ {k} :
                get_position_hash(candidate_nodes[y].node) = position}}
        \cup {node_history[x] : x \in {y \in DOMAIN node_history :
                y = k \/ get_position_hash(node_history[y].node) = position}}

(* C21: at every step, for every record r of the Frontier, no other record
   of the Frontier or of the History with the identity key or the position
   key of r has an accrued cost <= that of r. *)
C21_FrontierNotDominated ==
    pc \in {"loop", "done"} =>
        \A k \in DOMAIN candidate_nodes :
            \A o \in Rivals(k) :
                o.current_accrued_cost > candidate_nodes[k].current_accrued_cost

----------------------------------------------------------------------------
(* Parent keys *)

ParentKeysHeld ==
    \A r \in AllRecords : r.parent # None => r.parent[1] \in DOMAIN node_history

\* the backtrace that the next iteration of a_star_search runs, when it
\* extracts `index` and a successor is accepted
NextBacktrace(index) ==
    LET nl1 == get_next(NL, index)
        parent == nl1.node_history[index]
        successors == get_successors(parent.node)
        hit == FirstAccepted(successors)
    IN  IF hit = 0 THEN [status |-> "ok"]
        ELSE make_results(EndDetails(parent, successors[hit]), nl1)

(* C22: every record that carries a parent key, in the Frontier, in the
   History or in the result collection, has that key in the History from its
   creation on, so that every parent lookup of a backtrace finds an entry. *)
C22_ParentLookupsSucceed ==
    pc = "loop" =>
        /\ ParentKeysHeld
        /\ (mode = "single" /\ InRange)
            => \A index \in NextIds(NL) : NextBacktrace(index).status = "ok"
        /\ (mode = "all" /\ InRange /\ NextIds(NL) = {})
            => FirstBad(Exhausted(scoring_results, NL).made) = 0

----------------------------------------------------------------------------
(* Returned paths *)

Leads(successors, v) == \E j \in 1 .. Len(successors) : successors[j].node = v

Distinct(path) == \A a, b \in 1 .. Len(path) : path[a] = path[b] => a = b

\* a returned path of the search of a_star/mod.rs
IsBacktrace(path) ==
    /\ Len(path) >= 2
    /\ path[1] = start
    /\ is_at_end_function(Last(path))
    /\ \A k \in 1 .. Len(path) - 1 : Leads(get_successors(path[k]), path[k + 1])
    /\ Distinct(SubSeq(path, 1, Len(path) - 1))

\* a returned path of the search of a_star.rs
IsOldBacktrace(path) ==
    /\ Len(path) >= 2
    /\ path[1] = start
    /\ Last(path) = target
    /\ \A k \in 1 .. Len(path) - 1 : Leads(old_get_successors(path[k]), path[k + 1])

(* C23: what the backtrace returns for a goal record is a path that begins
   with the start node, ends with the accepted node, takes at every step an
   edge that the successor function produced for the node it leaves, and
   passes through no History key twice; it is what following the parent
   keys of the goal record through the History gives, down to the record
   without parent. *)
C23_BacktraceIsAPath ==
    /\ (pc = "done" /\ outcome = "Ok")
        => /\ Len(results) >= 1
           /\ \A j \in 1 .. Len(results) : IsBacktrace(results[j].shortest_path)
    /\ (pc = "done" /\ outcome = "Ok" /\ mode = "all")
        => /\ Len(results) = Len(scoring_results)
           /\ \A j \in 1 .. Len(scoring_results) :
                 LET walk == backtrace_get(scoring_results[j].parent, node_history,
                                           <<scoring_results[j].node>>, {})
                 IN  /\ walk.status = "ok"
                     /\ Reverse(walk.path) = results[j].shortest_path
                     /\ scoring_results[j].current_accrued_cost = results[j].shortest_path_cost
    /\ pc = "old"
        => \A p \in BOOLEAN :
              (solution[p] # None /\ solution[p][1].status = "Ok")
              => IsOldBacktrace(solution[p][1].path)

\* the budgeted search has returned two paths to one accepted node, one of
\* them through a third node
C23_Witness ==
    /\ kind = "table" /\ mode = "all" /\ ~same
    /\ pc = "done" /\ outcome = "Ok"
    /\ Len(results) = 2
    /\ Last(results[1].shortest_path) = Last(results[2].shortest_path)
    /\ \E j \in 1 .. 2 : Len(results[j].shortest_path) = 3

----------------------------------------------------------------------------
(* The order of extraction *)

\* the Frontier keys of the records with the least f
LeastF ==
    {k \in DOMAIN candidate_nodes :
        \A y \in DOMAIN candidate_nodes :
            sum_accrued_plus_estimated_cost(candidate_nodes[k])
                <= sum_accrued_plus_estimated_cost(candidate_nodes[y])}

\* among them, the key of the record with the least node
LeastNode ==
    CHOOSE k \in LeastF : \A y \in LeastF : candidate_nodes[k].node <= candidate_nodes[y].node

Extracts(k) == node_history' = Put(node_history, k, candidate_nodes[k])

(* C24: each extraction takes the Frontier record that is least under the
   order (f, then the node's own order): no record left has a smaller f, and
   among the records of the least f the one with the least node is taken,
   whatever the order in which a container yields its elements. *)
C24_Step ==
    (pc = "loop" /\ InRange /\ DOMAIN candidate_nodes # {}) => Extracts(LeastNode)

C24_ExtractsLeast == [][C24_Step]_vars

----------------------------------------------------------------------------
(* try_insert_successor, record by record *)

\* records for the nodes the registry knows, one cheaper than a held record
\* of the node, as dear, or one dearer, under any parent the History holds
Offered ==
    UNION {{new_with_parent(r.node, c, distance_function(r.node), p) :
                c \in {x \in 0 .. r.current_accrued_cost + 1 :
                          x >= r.current_accrued_cost - 1},
                p \in {node_history[k] : k \in DOMAIN node_history}} :
           r \in Held}

\* the position test of the claim
BestKnownRejects(d) ==
    LET position == get_position_hash(d.node)
        pm == position_hash_to_min_accrued_cost
    IN  /\ position \in DOMAIN pm
        /\ IF same THEN pm[position] <= d.current_accrued_cost
           ELSE pm[position] < d.current_accrued_cost

Inserted(d, nl) ==
    LET id == get_node_id(d.node)
        position == get_position_hash(d.node)
        pm == position_hash_to_min_accrued_cost
    IN  /\ ~nl.panicked
        /\ DOMAIN nl.candidate_nodes = (DOMAIN candidate_nodes) \cup {id}
        /\ nl.candidate_nodes[id] = d
        /\ \A k \in (DOMAIN candidate_nodes) \ {id} : nl.candidate_nodes[k] = candidate_nodes[k]
        /\ \A c \in DOMAIN nl.cost_indexing :
              /\ nl.cost_indexing[c] # {}
              /\ id \in nl.cost_indexing[c] <=> c = sum_accrued_plus_estimated_cost(d)
        /\ sum_accrued_plus_estimated_cost(d) \in DOMAIN nl.cost_indexing
        /\ nl.position_hash_to_min_accrued_cost =
              Put(pm, position,
                  IF position \in DOMAIN pm
                  THEN Min2(pm[position], d.current_accrued_cost)
                  ELSE d.current_accrued_cost)
        /\ nl.node_history = node_history

(* C25: try_insert_successor rejects a record, changing nothing, when the
   best-known accrued cost of its position key is <= its accrued cost with
   identity = position, and only when it is < with identity != position;
   when it does not reject, the Frontier then holds one record for the
   identity key, the new one, the cost index lists the key under the new f
   only, and the position table holds the least of its previous value and
   the new accrued cost. *)
C25_InsertOrReject ==
    pc = "loop" =>
        \A d \in Offered :
            LET nl == try_insert_successor(NL, d)
            IN  IF BestKnownRejects(d) THEN nl = NL ELSE Inserted(d, nl)

\* a record cheaper than the Frontier record of its identity is offered, and
\* another that is rejected
C25_Witness ==
    /\ pc = "loop"
    /\ \E d \in Offered :
          /\ ~BestKnownRejects(d)
          /\ get_node_id(d.node) \in DOMAIN candidate_nodes
          /\ sum_accrued_plus_estimated_cost(candidate_nodes[get_node_id(d.node)])
                # sum_accrued_plus_estimated_cost(d)
    /\ \E d \in Offered : BestKnownRejects(d)

----------------------------------------------------------------------------
(* Expanded identities that come back *)

\* the accrued costs of the records the registry holds under identity key k
CostsUnder(k) ==
    {candidate_nodes[x].current_accrued_cost : x \in (DOMAIN candidate_nodes) \cap {k}}
        \cup {node_history[x].current_accrued_cost : x \in (DOMAIN node_history) \cap {k}}

(* C26: with identity = position, a successor whose identity key is in the
   History is put into the Frontier if and only if its accrued cost is
   strictly lower than the lowest accrued cost of the records inserted for
   that identity before; a re-discovery at an equal or a higher accrued cost
   changes nothing. *)
C26_ReopenOnlyCheaper ==
    (pc = "loop" /\ same) =>
        /\ \A k \in (DOMAIN candidate_nodes) \cup (DOMAIN node_history) :
              /\ k \in DOMAIN position_hash_to_min_accrued_cost
              /\ position_hash_to_min_accrued_cost[k] = SetMin(CostsUnder(k))
        /\ \A d \in Offered :
              LET k == get_node_id(d.node)
                  nl == try_insert_successor(NL, d)
              IN  k \in DOMAIN node_history =>
                     IF d.current_accrued_cost < SetMin(CostsUnder(k))
                     THEN /\ k \in DOMAIN nl.candidate_nodes
                          /\ nl.candidate_nodes[k] = d
                          /\ nl.node_history = node_history
                     ELSE nl = NL

\* an expanded identity is back in the Frontier, cheaper than its History
\* record, and a record as dear as the cheapest is offered for an expanded
\* identity
C26_Witness ==
    /\ pc = "loop" /\ same
    /\ \E k \in (DOMAIN candidate_nodes) \cap (DOMAIN node_history) :
          candidate_nodes[k].current_accrued_cost < node_history[k].current_accrued_cost
    /\ \E d \in Offered :
          /\ get_node_id(d.node) \in DOMAIN node_history
          /\ d.current_accrued_cost = SetMin(CostsUnder(get_node_id(d.node)))

----------------------------------------------------------------------------
(* The first accepted successor *)

\* the step extracts `index` and finds an accepted successor of its node
AcceptsAfter(index) ==
    /\ index \in NextIds(NL)
    /\ node_history' = Put(node_history, index, candidate_nodes[index])
    /\ FirstAccepted(get_successors(candidate_nodes[index].node)) # 0

\* none of the successors of the node of `index` has gone into the registry
NothingInserted(index) ==
    /\ candidate_nodes' = Del(candidate_nodes, index)
    /\ position_hash_to_min_accrued_cost' = position_hash_to_min_accrued_cost
    /\ \A c \in DOMAIN cost_indexing' :
          c \in DOMAIN cost_indexing /\ cost_indexing'[c] = cost_indexing[c] \ {index}

\* the call returns the path to the first accepted successor
ReturnsFirst(index) ==
    LET parent == candidate_nodes[index]
        successors == get_successors(parent.node)
        end == successors[FirstAccepted(successors)]
    IN  /\ pc' = "done"
        /\ outcome' = "Ok"
        /\ Len(results') = 1
        /\ Last(results'[1].shortest_path) = end.node
        /\ results'[1].shortest_path_cost = parent.current_accrued_cost + end.cost_to_move_here

(* C27: in a_star_search, as soon as a generated successor is accepted by
   the termination predicate the call returns, with that successor as the
   last node of the path and the accrued cost of the parent plus the cost of
   the edge as the cost: later successors of the parent do not count, no
   successor of the parent goes into the Frontier, and nothing more is
   extracted. *)
C27_Step ==
    (pc = "loop" /\ mode = "single" /\ InRange) =>
        \A index \in DOMAIN candidate_nodes :
            AcceptsAfter(index) => (ReturnsFirst(index) /\ NothingInserted(index))

C27_FirstAcceptanceReturns == [][C27_Step]_vars

----------------------------------------------------------------------------
(* A batch of the parallel run *)

\* the batch the next parallel iteration takes, and what its workers give
Batch == QNodes(open_list[TRUE], TRUE)

Worked == [j \in 1 .. Len(Batch) |-> run_get_successors(Batch[j][1], Batch[j][2])]

Terminals == {Worked[j].done[1] : j \in {x \in 1 .. Len(Batch) : Worked[x].done # None}}

Candidates ==
    UNION {{Worked[j].successors[x] : x \in 1 .. Len(Worked[j].successors)} :
              j \in 1 .. Len(Batch)}

BatchNodes == {Batch[j][1] : j \in 1 .. Len(Batch)}

ParallelStep ==
    /\ pc = "old" /\ solution[TRUE] = None /\ DOMAIN open_list[TRUE] # {}
    /\ <<open_list[TRUE], closed_list[TRUE], solution[TRUE]>>
          # <<open_list'[TRUE], closed_list'[TRUE], solution'[TRUE]>>

(* C28: in a parallel step in which a worker produced a terminal record the
   search returns the backtrace of a terminal record of the least accrued
   cost among the terminal records of the batch, and no candidate record of
   the batch is merged; when no worker produced one, every candidate record
   of the batch is merged. *)
C28_Step ==
    ParallelStep =>
        IF Terminals # {}
        THEN /\ solution'[TRUE] # None
             /\ \E t \in Terminals :
                   /\ \A u \in Terminals : t[2].g <= u[2].g
                   /\ solution'[TRUE][1] = Found(t)
             /\ open_list'[TRUE] = [n \in (DOMAIN open_list[TRUE]) \ BatchNodes
                                      |-> open_list[TRUE][n]]
             /\ closed_list'[TRUE] = closed_list[TRUE]
        ELSE /\ solution'[TRUE] = None
             /\ BatchNodes \subseteq DOMAIN closed_list'[TRUE]
             /\ \A c \in Candidates :
                   \/ /\ c[1] \in DOMAIN open_list'[TRUE]
                      /\ f(open_list'[TRUE][c[1]]) <= f(c[2])
                   \/ /\ c[1] \in DOMAIN closed_list[TRUE]
                      /\ f(closed_list[TRUE][c[1]]) < f(c[2])

C28_LeastTerminalReturned == [][C28_Step]_vars

\* the parallel run has returned the path through one node of a batch of
\* two, both of which lead to the target, the other at a greater cost
C28_Witness ==
    /\ pc = "old" /\ kind = "dag" /\ threads = 2
    /\ solution[TRUE] # None
    /\ solution[TRUE][1].status = "Ok"
    /\ Len(solution[TRUE][1].path) = 3
    /\ \E q \in {1, 2} \ {solution[TRUE][1].path[2]} :
          /\ Leads(edges[0], q)
          /\ Leads(edges[q], 3)
          /\ q \notin DOMAIN open_list[TRUE]
          /\ q \notin DOMAIN closed_list[TRUE]
          /\ \E a \in 1 .. Len(edges[0]), b \in 1 .. Len(edges[q]) :
                /\ edges[0][a].node = q /\ edges[q][b].node = 3
                /\ edges[0][a].cost_to_move_here + edges[q][b].cost_to_move_here
                       > solution[TRUE][1].cost

----------------------------------------------------------------------------
(* What a parallel step takes from the open list *)

Precedes(open, m, n) == sorting_function(<<m, open[m]>>, <<n, open[n]>>)

\* the k least nodes of the open list under (f, then node)
LeastOf(open, k) ==
    {n \in DOMAIN open : Cardinality({m \in DOMAIN open : Precedes(open, m, n)}) < k}

\* k sequential extractions with no insertion in between
RECURSIVE Extractions(_, _)
Extractions(open, k) ==
    IF k = 0 \/ DOMAIN open = {} THEN <<>>
    ELSE LET q == QNodes(open, FALSE)[1]
         IN  <<q>> \o Extractions(Del(open, q[1]), k - 1)

(* C29: a parallel step with P workers takes min(P, |Frontier|) records out
   of the Frontier, the least ones under (f, then node): the records that
   as many sequential extractions in a row would return.  Every other
   record of the Frontier stays in it. *)
C29_Step ==
    ParallelStep =>
        LET open  == open_list[TRUE]
            k     == Min2(threads, Cardinality(DOMAIN open))
            least == LeastOf(open, k)
            taken == Extractions(open, k)
        IN  /\ Cardinality(least) = k
            /\ {taken[j][1] : j \in 1 .. Len(taken)} = least
            /\ IF solution'[TRUE] # None
               THEN DOMAIN open_list'[TRUE] = (DOMAIN open) \ least
               ELSE /\ DOMAIN closed_list'[TRUE] = DOMAIN closed_list[TRUE] \cup least
                    /\ \A j \in 1 .. Len(taken) :
                          closed_list'[TRUE][taken[j][1]] = taken[j][2]
                    /\ (DOMAIN open) \ least \subseteq DOMAIN open_list'[TRUE]

C29_TakesLeast == [][C29_Step]_vars

\* two workers have taken two of the three records of the Frontier, and the
\* one left behind comes after both of them in the order
C29_Witness ==
    /\ pc = "old" /\ kind = "fan" /\ threads = 2
    /\ solution[TRUE] = None
    /\ Cardinality(DOMAIN closed_list[TRUE]) = 3
    /\ \E n \in 1 .. 3 :
          /\ n \in DOMAIN open_list[TRUE]
          /\ \A m \in (1 .. 3) \ {n} :
                /\ m \in DOMAIN closed_list[TRUE]
                /\ \/ f(closed_list[TRUE][m]) < f(open_list[TRUE][n])
                   \/ f(closed_list[TRUE][m]) = f(open_list[TRUE][n]) /\ m < n
          /\ \E m \in (1 .. 3) \ {n} : f(closed_list[TRUE][m]) < f(open_list[TRUE][n])
          /\ n < 3

----------------------------------------------------------------------------
(* src/src/a_star.rs with run_in_parallel, followed worker by worker: the   *)
(* coordinator pops q_nodes, spawns one worker per popped record inside     *)
(* rayon::scope, and goes on after the scope has returned.                  *)

Unspawned == [at |-> "unspawned", result |-> None]

\* the workers that have been spawned and have not returned
RunningWorkers(b) == {w \in DOMAIN b.workers : b.workers[w].at \in {"spawned", "computed", "locked"}}

\* mutant: the scope returns as soon as its closure has spawned the workers
scope_returns_unjoined(b) == b.spawned = Len(b.q_nodes)

\* rayon::scope returns when its closure and every spawned worker have returned
scope_returns(b) ==
    /\ b.spawned = Len(b.q_nodes)
    /\ \A w \in DOMAIN b.workers : b.workers[w].at = "finished"

BatchFrame == UNCHANGED <<inputs, search, logging, pc, threads, builders, stores, temp>>

\* lines 87-111 and 199: the loop test and the records taken off the open list
take_q_nodes ==
    /\ pc = "batch" /\ batch.at = "loop"
    /\ BatchFrame /\ UNCHANGED closed_list
    /\ IF DOMAIN open_list[TRUE] = {}
       THEN /\ solution' = [solution EXCEPT ![TRUE] =
                                Some([status |-> "NoSolutionFound", path |-> <<>>, cost |-> 0])]
            /\ batch' = [batch EXCEPT !.at = "returned"]
            /\ UNCHANGED open_list
       ELSE \E taken \in {QNodes(open_list[TRUE], TRUE)} :
            /\ open_list' = [open_list EXCEPT ![TRUE] =
                   [n \in (DOMAIN @) \ {taken[j][1] : j \in 1 .. Len(taken)} |-> @[n]]]
            /\ batch' = [at |-> IF Len(taken) = 1 THEN "single" ELSE "scope",
                         q_nodes |-> taken, spawned |-> 0,
                         workers |-> [w \in 1 .. Len(taken) |-> Unspawned],
                         final_results |-> <<>>, successors |-> <<>>,
                         final_results_lock |-> 0, successors_lock |-> 0, cursor |-> 1]
            /\ UNCHANGED solution

\* lines 135-141: one popped record is expanded by the coordinator itself
expand_single ==
    /\ pc = "batch" /\ batch.at = "single"
    /\ BatchFrame /\ UNCHANGED <<open_list, closed_list>>
    /\ \E ran \in {run_get_successors(batch.q_nodes[1][1], batch.q_nodes[1][2])} :
          IF ran.done # None
          THEN /\ solution' = [solution EXCEPT ![TRUE] = Some(Found(ran.done[1]))]
               /\ batch' = [batch EXCEPT !.at = "returned"]
          ELSE /\ batch' = [batch EXCEPT !.at = "merge", !.successors = ran.successors]
               /\ UNCHANGED solution

\* lines 149-164: the closure of the scope spawns the next worker
spawn ==
    /\ pc = "batch" /\ batch.at = "scope"
    /\ batch.spawned < Len(batch.q_nodes)
    /\ BatchFrame /\ UNCHANGED <<open_list, closed_list, solution>>
    /\ batch' = [batch EXCEPT !.spawned = @ + 1,
                              !.workers[batch.spawned + 1].at = "spawned"]

\* line 155: a worker expands the record it was given
worker_run(w) ==
    /\ pc = "batch" /\ w \in DOMAIN batch.workers
    /\ batch.workers[w].at = "spawned"
    /\ BatchFrame /\ UNCHANGED <<open_list, closed_list, solution>>
    /\ batch' = [batch EXCEPT !.workers[w] =
                    [at |-> "computed",
                     result |-> Some(run_get_successors(batch.q_nodes[w][1],
                                                        batch.q_nodes[w][2]))]]

\* lines 157 and 161: the worker takes the mutex of the vector it adds to
worker_lock(w) ==
    /\ pc = "batch" /\ w \in DOMAIN batch.workers
    /\ batch.workers[w].at = "computed"
    /\ BatchFrame /\ UNCHANGED <<open_list, closed_list, solution>>
    /\ IF batch.workers[w].result[1].done # None
       THEN /\ batch.final_results_lock = 0
            /\ batch' = [batch EXCEPT !.final_results_lock = w, !.workers[w].at = "locked"]
       ELSE /\ batch.successors_lock = 0
            /\ batch' = [batch EXCEPT !.successors_lock = w, !.workers[w].at = "locked"]

\* lines 158-159 and 162: the worker adds to the vector and its guard is dropped
worker_push(w) ==
    /\ pc = "batch" /\ w \in DOMAIN batch.workers
    /\ batch.workers[w].at = "locked"
    /\ BatchFrame /\ UNCHANGED <<open_list, closed_list, solution>>
    /\ IF batch.workers[w].result[1].done # None
       THEN batch' = [batch EXCEPT
                         !.final_results = Append(@, batch.workers[w].result[1].done[1]),
                         !.final_results_lock = 0, !.workers[w].at = "finished"]
       ELSE batch' = [batch EXCEPT
                         !.successors = @ \o batch.workers[w].result[1].successors,
                         !.successors_lock = 0, !.workers[w].at = "finished"]

\* lines 165-178: the scope has returned, and the coordinator looks at final_results
after_scope ==
    /\ pc = "batch" /\ batch.at = "scope"
    /\ scope_returns(batch)
    /\ BatchFrame /\ UNCHANGED <<open_list, closed_list>>
    /\ IF batch.final_results # <<>>
       THEN /\ solution' = [solution EXCEPT ![TRUE] =
                                Some(Found(FirstMinByG(batch.final_results)))]
            /\ batch' = [batch EXCEPT !.at = "returned"]
       ELSE /\ batch' = [batch EXCEPT !.at = "merge"]
            /\ UNCHANGED solution

\* lines 182-194: one turn of `for (successor, details) in successors`
merge_successor ==
    /\ pc = "batch" /\ batch.at = "merge"
    /\ batch.cursor <= Len(batch.successors)
    /\ BatchFrame /\ UNCHANGED <<closed_list, solution>>
    /\ open_list' = [open_list EXCEPT ![TRUE] =
           InsertSuccessors(@, closed_list[TRUE], <<batch.successors[batch.cursor]>>, 1)]
    /\ batch' = [batch EXCEPT !.cursor = @ + 1]

\* line 196: closed_list.extend(q_nodes), and back to the loop test
extend_closed ==
    /\ pc = "batch" /\ batch.at = "merge"
    /\ batch.cursor > Len(batch.successors)
    /\ BatchFrame /\ UNCHANGED <<open_list, solution>>
    /\ closed_list' = [closed_list EXCEPT ![TRUE] = Extend(@, batch.q_nodes, 1)]
    /\ batch' = [batch EXCEPT !.at = "loop"]

BatchInit ==
    /\ pc = "batch"
    /\ \/ /\ kind = "wormhole" /\ edges = EmptyMap /\ hmap = EmptyMap
          /\ start = 1 /\ target \in {7, 3}
       \/ /\ kind = "dag" /\ edges \in {DagEdgesOf(w) : w \in DagWeights}
          /\ hmap = [n \in DagNodes |-> 0]
          /\ start = 0 /\ target = 3
       \/ /\ kind = "fan" /\ edges \in {FanEdgesOf(w) : w \in FanWeights}
          /\ hmap = [n \in FanNodes |-> 0]
          /\ start = 0 /\ target = 4
    /\ goals = {target} /\ same = TRUE /\ mode = "" /\ max_score = 0
    /\ iteration_limit = None
    /\ candidate_nodes = EmptyMap /\ node_history = EmptyMap
    /\ cost_indexing = EmptyMap /\ position_hash_to_min_accrued_cost = EmptyMap
    /\ scoring_results = <<>> /\ i = 1 /\ steps = 0
    /\ outcome = "" /\ results = <<>>
    /\ suppress_logs = TRUE /\ log_interval = 0
    /\ timeout = Timeout_start(log_interval) /\ progress = FALSE
    /\ BuildersUnused /\ StoresUnused /\ TempUnused
    /\ threads \in 1 .. MaxThreads
    /\ open_list = [p \in {TRUE} |-> Put(EmptyMap, start, old_NodeDetails_new(0, 0))]
    /\ closed_list = [p \in {TRUE} |-> EmptyMap]
    /\ solution = [p \in {TRUE} |-> None]
    /\ batch = [at |-> "loop", q_nodes |-> <<>>, spawned |-> 0, workers |-> <<>>,
                final_results |-> <<>>, successors |-> <<>>,
                final_results_lock |-> 0, successors_lock |-> 0, cursor |-> 1]

BatchNext ==
    \/ take_q_nodes
    \/ expand_single
    \/ spawn
    \/ \E w \in 1 .. MaxThreads : worker_run(w)
    \/ \E w \in 1 .. MaxThreads : worker_lock(w)
    \/ \E w \in 1 .. MaxThreads : worker_push(w)
    \/ after_scope
    \/ merge_successor
    \/ extend_closed

BatchSpec == BatchInit /\ [][BatchNext]_vars

----------------------------------------------------------------------------
(* C30: in parallel mode the open and the closed list do not change while a
   worker of the batch is running; a step of a worker changes nothing but
   the worker itself and one of the two result vectors, to which it
   appends; candidates are merged only once every worker of the batch has
   returned, and a worker exists only between the popping of its batch and
   the return of the scope, so none of the next step starts before the
   merge is over. *)
C30_Step ==
    /\ RunningWorkers(batch) # {} =>
          /\ open_list' = open_list /\ closed_list' = closed_list
          /\ batch'.q_nodes = batch.q_nodes
          /\ batch.at = "scope"
    /\ batch'.workers # batch.workers /\ batch'.q_nodes = batch.q_nodes =>
          /\ open_list' = open_list /\ closed_list' = closed_list
          /\ Len(batch'.final_results) >= Len(batch.final_results)
          /\ SubSeq(batch'.final_results, 1, Len(batch.final_results)) = batch.final_results
          /\ Len(batch'.successors) >= Len(batch.successors)
          /\ SubSeq(batch'.successors, 1, Len(batch.successors)) = batch.successors
    /\ batch.at = "merge" \/ batch'.at = "merge" => RunningWorkers(batch) = {} /\ RunningWorkers(batch') = {}
    /\ RunningWorkers(batch') # {} => batch'.at = "scope" /\ batch'.cursor = 1

C30_ListsStillWhileWorkersRun == [][C30_Step]_vars

\* two workers have run side by side: the second took its mutex while the
\* first had not yet been started
C30_Witness ==
    /\ pc = "batch"
    /\ Len(batch.q_nodes) = 2
    /\ batch.workers[1].at = "spawned"
    /\ batch.workers[2].at = "locked"
    /\ batch.successors_lock = 2
    /\ DOMAIN closed_list[TRUE] # {}

----------------------------------------------------------------------------
(* The parallel run with the workers' outputs taken in the order of q_nodes *)

RECURSIVE InOrder(_, _)
InOrder(open, closed) ==
    IF DOMAIN open = {} THEN [status |-> "NoSolutionFound", path |-> <<>>, cost |-> 0]
    ELSE LET taken == QNodes(open, TRUE)
             rest  == [n \in (DOMAIN open) \ {taken[j][1] : j \in 1 .. Len(taken)} |-> open[n]]
             ran   == [j \in 1 .. Len(taken) |-> run_get_successors(taken[j][1], taken[j][2])]
             final == Concat([j \in 1 .. Len(ran) |->
                                 IF ran[j].done = None THEN <<>> ELSE <<ran[j].done[1]>>], 1)
         IN  IF final # <<>> THEN Found(FirstMinByG(final))
             ELSE InOrder(InsertSuccessors(rest, closed,
                                           Concat([j \in 1 .. Len(ran) |-> ran[j].successors], 1), 1),
                          Extend(closed, taken, 1))

FromStart == InOrder(Put(EmptyMap, start, old_NodeDetails_new(0, 0)), EmptyMap)

\* the cost of the edge the successor function gives from u to v
OldEdgeCost(u, v) ==
    LET out == old_get_successors(u)
    IN  out[CHOOSE j \in 1 .. Len(out) : out[j].node = v].cost_to_move_here

RECURSIVE OldPathCost(_)
OldPathCost(path) ==
    IF Len(path) < 2 THEN 0
    ELSE OldEdgeCost(path[1], path[2]) + OldPathCost(Tail(path))

(* C31: for one input and one worker count, whatever the order in which the
   workers of each batch run and finish, the parallel search ends with the
   same outcome kind and the same cost as the run in which the workers'
   outputs are taken in the order of q_nodes. *)
C31_OutcomeAndCostFixed ==
    pc = "batch" /\ solution[TRUE] # None =>
        /\ solution[TRUE][1].status = FromStart.status
        /\ solution[TRUE][1].cost = FromStart.cost
        /\ OldPathCost(solution[TRUE][1].path) = OldPathCost(FromStart.path)

\* two workers finished in the other order, and the search returned another
\* path of the same cost
C31_Witness ==
    /\ pc = "batch" /\ solution[TRUE] # None
    /\ solution[TRUE][1].status = "Ok"
    /\ Len(batch.final_results) = 2
    /\ solution[TRUE][1].path # FromStart.path
    /\ solution[TRUE][1].cost = FromStart.cost

----------------------------------------------------------------------------
(* The registry right after its construction *)

\* no iteration of the loop has run yet
Constructed == pc = "loop" /\ steps = 0

OldConstructed(p) ==
    pc = "old" /\ solution[p] = None /\ DOMAIN closed_list[p] = {}

StartRecord == NodeDetails_new(start, 0, 0)

C32_Fresh ==
    /\ Constructed =>
          /\ DOMAIN candidate_nodes = {get_node_id(start)}
          /\ candidate_nodes[get_node_id(start)] = StartRecord
          /\ DOMAIN cost_indexing = {0}
          /\ cost_indexing[0] = {get_node_id(start)}
          /\ DOMAIN position_hash_to_min_accrued_cost = {get_position_hash(start)}
          /\ position_hash_to_min_accrued_cost[get_position_hash(start)] = 0
          /\ DOMAIN node_history = {}
    /\ \A p \in BOOLEAN :
          OldConstructed(p) =>
              /\ DOMAIN open_list[p] = {start}
              /\ open_list[p][start] = old_NodeDetails_new(0, 0)

C32_FirstStep ==
    /\ Constructed /\ InRange =>
          /\ steps' = 1
          /\ DOMAIN node_history' = {get_node_id(start)}
          /\ node_history'[get_node_id(start)] = StartRecord
    /\ \A p \in BOOLEAN :
          OldConstructed(p) /\ <<open_list[p], closed_list[p], solution[p]>>
                                  # <<open_list'[p], closed_list'[p], solution'[p]>> =>
              IF solution'[p] = None
              THEN /\ DOMAIN closed_list'[p] = {start}
                   /\ closed_list'[p][start] = old_NodeDetails_new(0, 0)
              ELSE /\ solution'[p][1].status = "Ok"
                   /\ Len(solution'[p][1].path) = 2
                   /\ solution'[p][1].path[1] = start

(* C32: right after the registry is constructed the Frontier holds one
   record, the start node with accrued cost 0, heuristic 0 and no parent;
   the cost index and the position table hold that record's entries only;
   the History is empty; and the first extraction returns the start record. *)
C32_StartsWithStartRecord == []C32_Fresh /\ [][C32_FirstStep]_vars

\* the first extraction has happened in a search whose position keys differ
\* from its identity keys and whose start node has a heuristic above 0
C32_Witness ==
    /\ pc = "loop" /\ steps = 1 /\ ~same
    /\ distance_function(start) > 0
    /\ DOMAIN node_history = {get_node_id(start)}
    /\ node_history[get_node_id(start)] = StartRecord
    /\ DOMAIN candidate_nodes # {}

----------------------------------------------------------------------------
(* The cost of a returned path *)

\* the cost the successor function gives for the move from u to v
EdgeCost(u, v) ==
    LET out == get_successors(u)
    IN  out[CHOOSE j \in 1 .. Len(out) : out[j].node = v].cost_to_move_here

RECURSIVE PathCost(_)
PathCost(path) ==
    IF Len(path) < 2 THEN 0
    ELSE EdgeCost(path[1], path[2]) + PathCost(Tail(path))

\* graphs over 0..3 with a direct move 0 -> 1, a detour 0 -> 2 -> 1 and the
\* move 1 -> 3 to the accepted node, under every heuristic on 1 and 2
DetourNodes == 0 .. 3

DetourEdgesOf(c) ==
    [u \in DetourNodes |->
        CASE u = 0 -> <<[node |-> 1, cost_to_move_here |-> c[1]],
                        [node |-> 2, cost_to_move_here |-> c[2]]>>
          [] u = 1 -> <<[node |-> 3, cost_to_move_here |-> c[3]]>>
          [] u = 2 -> <<[node |-> 1, cost_to_move_here |-> c[4]]>>
          [] u = 3 -> <<>>]

InitDetour ==
    /\ kind = "table"
    /\ edges \in {DetourEdgesOf(c) : c \in [1 .. 4 -> 0 .. MaxCost]}
    /\ hmap \in {[n \in DetourNodes |-> IF n \in {1, 2} THEN h[n] ELSE 0] :
                    h \in [{1, 2} -> {0, MaxH}]}
    /\ start = 0
    /\ target = 0
    /\ goals = {3}
    /\ same \in BOOLEAN
    /\ mode \in {"single", "all"}
    /\ max_score \in IF mode = "all" THEN 0 .. MaxTableBudget ELSE {0}
    /\ iteration_limit = None
    /\ suppress_logs = TRUE
    /\ log_interval = 0
    /\ Called

DetourSpec == InitDetour /\ [][Next]_vars

(* C33: for every result returned by either search, shortest_path_cost is
   the sum of the costs of the moves between consecutive nodes of
   shortest_path. *)
C33_CostIsSumOfMoves ==
    pc = "done" /\ outcome = "Ok" =>
        \A j \in 1 .. Len(results) :
            results[j].shortest_path_cost = PathCost(results[j].shortest_path)

----------------------------------------------------------------------------
(* C34: the termination predicate is applied to generated successors only,
   never to the start node as such: a search returns only after an
   extraction, every returned path has at least two nodes, starts at the
   start node and ends with an accepted node that is a successor of the
   node before it; so an accepted start node ends a path only as the
   successor of an expanded node. *)
C34_PredicateOnSuccessorsOnly ==
    pc = "done" /\ outcome = "Ok" =>
        /\ steps >= 1
        /\ \A j \in 1 .. Len(results) :
              LET path == results[j].shortest_path
              IN  /\ Len(path) >= 2
                  /\ path[1] = start
                  /\ is_at_end_function(path[Len(path)])
                  /\ Leads(get_successors(path[Len(path) - 1]), path[Len(path)])
                  /\ get_node_id(path[Len(path) - 1]) \in DOMAIN node_history

\* the start node is accepted by the predicate, and the search has returned
\* a path that comes back to it
C34_Witness ==
    /\ pc = "done" /\ outcome = "Ok"
    /\ is_at_end_function(start)
    /\ Len(results) >= 1
    /\ results[1].shortest_path[Len(results[1].shortest_path)] = start
    /\ Len(results[1].shortest_path) = 3

----------------------------------------------------------------------------
\* the records held by a map other than the record of the start node
Generated(m) == {m[k] : k \in {x \in DOMAIN m : m[x].parent # None}}

(* C35: a successor the termination predicate accepts is not inserted into
   the Frontier, so it is never expanded: no record of the Frontier or of
   the History other than the start record is of an accepted node, and in
   every returned path no node between the first and the last is accepted;
   the budgeted search so returns no goal that is reached through another
   goal. *)
C35_AcceptedNeverExpanded ==
    /\ pc \in {"loop", "done"} =>
          \A d \in Generated(candidate_nodes) \cup Generated(node_history) :
              ~is_at_end_function(d.node)
    /\ pc = "done" /\ outcome = "Ok" =>
          \A j \in 1 .. Len(results) :
              \A k \in 2 .. Len(results[j].shortest_path) - 1 :
                  ~is_at_end_function(results[j].shortest_path[k])

\* the budgeted search has returned on a graph in which accepted node 1 is a
\* successor of the start node, and accepted node -1 a successor of node 1 only
C35_Witness ==
    /\ pc = "done" /\ outcome = "Ok" /\ mode = "all" /\ kind = "table"
    /\ DOMAIN edges = TableNodes
    /\ goals = {-1, 1}
    /\ max_score = MaxTableBudget
    /\ Leads(edges[0], 1) /\ ~Leads(edges[0], -1) /\ Leads(edges[1], -1)
    /\ Len(results) >= 1
    /\ \A j \in 1 .. Len(results) : results[j].shortest_path = <<0, 1>>

----------------------------------------------------------------------------
(* The acceptances of the budgeted search *)

\* the successors of an extracted record that are within budget and accepted,
\* in the order of their generation
AcceptedOf(parent) ==
    LET out == get_successors(parent.node)
    IN  SelectSeq(out, LAMBDA s :
            /\ parent.current_accrued_cost + s.cost_to_move_here <= max_score
            /\ is_at_end_function(s.node))

\* the step collects one record for every acceptance of the expansion of
\* the record under key index
Collects(index) ==
    LET parent == candidate_nodes[index]
        acc    == AcceptedOf(parent)
    IN  /\ Len(scoring_results') = Len(scoring_results) + Len(acc)
        /\ SubSeq(scoring_results', 1, Len(scoring_results)) = scoring_results
        /\ \A x \in 1 .. Len(acc) :
              LET e == scoring_results'[Len(scoring_results) + x]
              IN  /\ e.node = acc[x].node
                  /\ e.current_accrued_cost
                         = parent.current_accrued_cost + acc[x].cost_to_move_here
                  /\ e.parent = Some(index)
                  /\ index = get_node_id(parent.node)

C36_Step ==
    pc = "loop" /\ mode = "all" =>
        /\ InRange /\ NextIds(NL) # {} =>
              \/ pc' = "panic"
              \/ \E index \in NextIds(NL) :
                    /\ index \in DOMAIN node_history'
                    /\ node_history'[index] = candidate_nodes[index]
                    /\ Collects(index)
        /\ pc' = "done" /\ outcome' = "Ok" =>
              /\ Len(results') = Len(scoring_results)
              /\ \A j \in 1 .. Len(results') :
                    LET path == results'[j].shortest_path
                        e    == scoring_results[j]
                    IN  /\ path[Len(path)] = e.node
                        /\ results'[j].shortest_path_cost = e.current_accrued_cost
                        /\ Len(path) >= 2
                        /\ get_node_id(path[Len(path) - 1]) = e.parent[1]

(* C36: the budgeted search collects one record for every successor
   generation that is within budget and accepted, and returns one result
   for every collected record, in the same order, with the node, the cost
   and the parent of that generation: a node accepted in k expansions ends
   k results. *)
C36_OneResultPerAcceptance == [][C36_Step]_vars

\* one node was accepted in the expansion of two different nodes, and ends
\* two results that come to it from those two nodes
C36_Witness ==
    /\ pc = "done" /\ outcome = "Ok" /\ mode = "all"
    /\ Len(results) = 2
    /\ LET p == results[1].shortest_path
           q == results[2].shortest_path
       IN  /\ p[Len(p)] = q[Len(q)]
           /\ p[Len(p) - 1] # q[Len(q) - 1]

----------------------------------------------------------------------------
(* The cost index and the Frontier *)

Agree(nl) ==
    /\ ~nl.panicked
    /\ \A c \in DOMAIN nl.cost_indexing :
          /\ nl.cost_indexing[c] # {}
          /\ \A id \in nl.cost_indexing[c] :
                /\ id \in DOMAIN nl.candidate_nodes
                /\ sum_accrued_plus_estimated_cost(nl.candidate_nodes[id]) = c
    /\ \A id \in DOMAIN nl.candidate_nodes :
          LET c == sum_accrued_plus_estimated_cost(nl.candidate_nodes[id])
          IN  c \in DOMAIN nl.cost_indexing /\ id \in nl.cost_indexing[c]

\* the records the loop body hands to try_insert_successor after the
\* expansion of parent
Handed(parent) ==
    LET successors == get_successors(parent.node)
    IN  IF mode = "all" THEN NextParents(parent, successors)
        ELSE IF FirstAccepted(successors) # 0 THEN <<>>
        ELSE AllDetails(parent, successors)

(* C37: after every operation on the registry the cost index and the
   Frontier agree: a key is listed under cost c exactly when the Frontier
   holds a record of that key with g + h = c, no cost entry is empty, and the
   lookups of remove_candidate succeed.  The operations are the construction,
   get_next, and each try_insert_successor of an iteration. *)
C37_IndexAgreesWithFrontier ==
    pc \in {"loop", "done"} =>
        /\ Agree(NL)
        /\ pc = "loop" =>
              \A index \in NextIds(NL) :
                  LET nl1 == get_next(NL, index)
                  IN  /\ Agree(nl1)
                      /\ LET handed == Handed(nl1.node_history[index])
                         IN  \A k \in 1 .. Len(handed) :
                                Agree(InsertAll(nl1, SubSeq(handed, 1, k), 1))

\* a key that was extracted is in the Frontier again at a lower cost, and
\* the cost index has entries under more than one cost
C37_Witness ==
    /\ pc = "loop"
    /\ Cardinality(DOMAIN cost_indexing) >= 2
    /\ \E id \in DOMAIN candidate_nodes \cap DOMAIN node_history :
          candidate_nodes[id].current_accrued_cost
              < node_history[id].current_accrued_cost

====
